---- MODULE Spec2Model ----
(***************************************************************************)
(* certifiable-bench: the benchmark runner (warmup, critical loop, result  *)
(* assembly), the streaming SHA-256 hasher it feeds, the integer            *)
(* statistics kernel, the environmental stability check and the            *)
(* cross-platform comparison gate.                                         *)
(*                                                                         *)
(* Numbers.  TLC's integers are 32 bits wide, so the program's uint64_t    *)
(* is modelled as an unsigned word of U64_BITS bits: every uint64_t        *)
(* operation that can wrap is taken modulo U64 = 2^U64_BITS, and int64_t   *)
(* is the two's-complement reading of the same word.                       *)
(*                                                                         *)
(* Hashing.  sha256_transform is modelled as a collision-free chaining     *)
(* function: the chaining value is the list of the blocks compressed so    *)
(* far, each block written as its runs of equal bytes.  Buffering, padding *)
(* and the length suffix are modelled as coded.                            *)
(* A byte is a pair <<v, h>>: a plain byte of value v has h = <<>>, and    *)
(* byte v of the serialised chaining value h is <<v, h>>.  A cb_hash_t is  *)
(* kept as [h, raw]: either the chaining value h it serialises (raw empty) *)
(* or its 32 plain byte values raw (h empty); HashBytes spells it out.     *)
(*                                                                         *)
(* Callers.  Spec lets a caller make any runner call at any time, starting *)
(* from a runner object that is either zero-filled or holds what an        *)
(* earlier use left in its memory; SpecBench is cb_run_benchmark called    *)
(* twice with the same arguments; SpecCompare is cb_compare_results on     *)
(* pairs of results, with the latencies at their real width; SpecHash is   *)
(* a caller of cb_verify_ctx_init/update/final feeding a message in        *)
(* chunks; SpecStats and SpecEnv apply cb_compute_stats and the two        *)
(* stability predicates to arrays and records drawn from small sets;       *)
(* SpecOutliers, SpecHistogram and SpecIsqrt do the same for               *)
(* cb_detect_outliers (on uint64_t at its full width, as eight base-256    *)
(* digits), cb_histogram_init/build and cb_isqrt64; SpecBinding computes   *)
(* cb_compute_result_hash for two sets of bound fields; SpecRepeat calls   *)
(* cb_runner_get_result twice on one executed runner; SpecGate runs        *)
(* cb_run_benchmark twice and compares the two results.                    *)
(* The clock, the inference function, the environment                      *)
(* probe and time() are inputs: each step draws their answers from small   *)
(* sets, and a run is explored either over more calls in which the clock  *)
(* and the inference function never fail, or over fewer calls in which     *)
(* they may (limits).                                                      *)
(***************************************************************************)
EXTENDS Integers, Sequences, FiniteSets, TLC

\* ------------------------------------------------------------------------
\* Bounds of the model
\* ------------------------------------------------------------------------
U64_BITS == 12
MaxWarmup == 1
MaxMeasure == 2
MaxOutputSize == 1
MaxClock == 4
MaxOps == 4
MaxFaultOps == 3
MaxFaults == 1
MaxMsgLen == 130
MaxInits == 2
MaxFinals == 2

\* ------------------------------------------------------------------------
\* Program constants
\* ------------------------------------------------------------------------
CB_NS_PER_SEC == 1000000000
CB_MAX_SAMPLES == 1000000
CB_MAX_HISTOGRAM == 256
CB_HASH_SIZE == 32
CB_MAX_PLATFORM == 32
OUTLIER_THRESH_SCALED == 35000
MAD_SCALE_FACTOR == 6745
CB_Q16_SHIFT == 16
WCET_SIGMA == 6
SORT_THRESHOLD == 64
SHA256_BLOCK == 64

CB_OK == "CB_OK"
CB_ERR_NULL_PTR == "CB_ERR_NULL_PTR"
CB_ERR_INVALID_CONFIG == "CB_ERR_INVALID_CONFIG"
CB_ERR_TIMER_INIT == "CB_ERR_TIMER_INIT"
CB_ERR_MODEL_LOAD == "CB_ERR_MODEL_LOAD"
CB_ERR_VERIFICATION == "CB_ERR_VERIFICATION"
CB_ERR_OVERFLOW == "CB_ERR_OVERFLOW"
CB_ERR_OUT_OF_MEMORY == "CB_ERR_OUT_OF_MEMORY"

CB_TIMER_AUTO == "CB_TIMER_AUTO"
CB_TIMER_POSIX == "CB_TIMER_POSIX"

\* ------------------------------------------------------------------------
\* Machine words
\* ------------------------------------------------------------------------
U64 == 2 ^ U64_BITS
UINT64_MAX == U64 - 1

\* uint64_t arithmetic: the result of an operation, reduced to the word.
u64(x) == x % U64

\* (int64_t)x for a word x, and the word of a signed value.
i64(x) == IF u64(x) >= U64 \div 2 THEN u64(x) - U64 ELSE u64(x)

Abs(x) == IF x < 0 THEN -x ELSE x

\* C's signed division truncates toward zero.
cdiv(a, b) == IF (a < 0) = (b < 0) THEN Abs(a) \div Abs(b) ELSE -(Abs(a) \div Abs(b))

\* x >> n and x << n on a word; a shift by the whole width or more leaves 0.
shr(x, n) == IF n >= U64_BITS THEN 0 ELSE x \div (2 ^ n)
shl(x, n) == IF n >= U64_BITS THEN 0 ELSE u64(x * (2 ^ n))

Min2(a, b) == IF a < b THEN a ELSE b
Max2(a, b) == IF a > b THEN a ELSE b

\* ------------------------------------------------------------------------
\* Bytes and digests
\* ------------------------------------------------------------------------
Byte(v) == <<v, <<>>>>

\* cb_hash_t after memset(.., 0, ..)
ZeroHash == [h |-> <<>>, raw |-> [i \in 1..CB_HASH_SIZE |-> 0]]

\* hash->bytes[i - 1]
HashByte(hash, i) == IF hash.raw # <<>> THEN Byte(hash.raw[i]) ELSE <<i - 1, hash.h>>

\* hash->bytes
HashBytes(hash) == [i \in 1..CB_HASH_SIZE |-> HashByte(hash, i)]

\* ------------------------------------------------------------------------
\* SHA-256 (verify.c)
\* ------------------------------------------------------------------------
\* The initial chaining value H0.
H0 == << <<>> >>

\* A block is written down by its runs: a run of plain bytes repeats one
\* value, a run of digest bytes walks through consecutive bytes of one
\* digest. The positions where runs start and the bytes there determine
\* the block.
continues_run(a, b) ==
    /\ a[2] = b[2]
    /\ IF b[2] = <<>> THEN a[1] = b[1] ELSE a[1] + 1 = b[1]

run_starts(block) ==
    {i \in 1..Len(block) : i = 1 \/ ~continues_run(block[i - 1], block[i])}

block_runs(block) == [i \in run_starts(block) |-> block[i]]

\* sha256_transform(state, block): compress one 64-byte block into the state.
\* The new chaining value is the old one and the block, so that two
\* chaining values are equal only if they compressed the same blocks.
sha256_transform(h, block) == Append(h, block_runs(block))

\* sha256_init
sha256_init == [h |-> H0, buffer |-> <<>>, total_len |-> 0]

\* the while (len >= 64) loop of sha256_update: compresses whole blocks
\* straight from the input and returns the state and the rest of the input.
RECURSIVE sha256_blocks(_, _)
sha256_blocks(h, data) ==
    IF Len(data) >= SHA256_BLOCK
    THEN sha256_blocks(sha256_transform(h, SubSeq(data, 1, SHA256_BLOCK)),
                       SubSeq(data, SHA256_BLOCK + 1, Len(data)))
    ELSE <<h, data>>

\* an update that, after filling the buffer, goes on from the start of data
sha256_update_no_advance(s, data) ==
    LET total == u64(s.total_len + Len(data))
        remaining == SHA256_BLOCK - Len(s.buffer)
    IN  IF Len(s.buffer) > 0 /\ Len(data) < remaining
        THEN [h |-> s.h, buffer |-> s.buffer \o data, total_len |-> total]
        ELSE LET h1 == IF Len(s.buffer) > 0
                       THEN sha256_transform(s.h, s.buffer \o SubSeq(data, 1, remaining))
                       ELSE s.h
                 r  == sha256_blocks(h1, data)
             IN  [h |-> r[1], buffer |-> r[2], total_len |-> total]

\* sha256_update(s, data, len); buffer holds the buffer_len valid bytes.
sha256_update(s, data) ==
    LET total == u64(s.total_len + Len(data))
        remaining == SHA256_BLOCK - Len(s.buffer)
    IN  IF Len(s.buffer) > 0 /\ Len(data) < remaining
        THEN [h |-> s.h, buffer |-> s.buffer \o data, total_len |-> total]
        ELSE LET h1 == IF Len(s.buffer) > 0
                       THEN sha256_transform(s.h, s.buffer \o SubSeq(data, 1, remaining))
                       ELSE s.h
                 d1 == IF Len(s.buffer) > 0
                       THEN SubSeq(data, remaining + 1, Len(data))
                       ELSE data
                 r  == sha256_blocks(h1, d1)
             IN  [h |-> r[1], buffer |-> r[2], total_len |-> total]

\* the eight length bytes of sha256_final, big-endian
BitLenBytes(bit_len) == [k \in 1..8 |-> Byte(shr(bit_len, 8 * (8 - k)) % 256)]

\* sha256_final(s, hash): pads, appends the bit length, and serialises h.
\* Returns the state it leaves behind and the digest.
sha256_final(s) ==
    LET bit_len == u64(s.total_len * 8)
        pad_len == IF Len(s.buffer) < 56 THEN 56 - Len(s.buffer) ELSE 120 - Len(s.buffer)
        pad == [k \in 1..pad_len |-> IF k = 1 THEN Byte(128) ELSE Byte(0)]
        s1 == sha256_update(s, pad)
        s2 == sha256_update(s1, BitLenBytes(bit_len))
    IN  [state |-> s2, hash |-> [h |-> s2.h, raw |-> <<>>]]

\* cb_verify_ctx_init
cb_verify_ctx_init == [state |-> sha256_init, bytes_hashed |-> 0, finalised |-> FALSE]

\* a cb_verify_ctx_t right after memset(runner, 0, ..): no chaining value at all
ZeroCtx == [state |-> [h |-> <<>>, buffer |-> <<>>, total_len |-> 0],
            bytes_hashed |-> 0, finalised |-> FALSE]

\* a data pointer is modelled by the bytes it points at; the null pointer
\* points at none and is no sequence
NullData == [address \in {0} |-> 0]

\* an update that does not look at the finalised flag
cb_verify_ctx_update_unchecked(ctx, data, size) ==
    IF data = NullData /\ size > 0 THEN <<CB_ERR_NULL_PTR, ctx>>
    ELSE IF size = 0 THEN <<CB_OK, ctx>>
    ELSE <<CB_OK, [ctx EXCEPT !.state = sha256_update(ctx.state, SubSeq(data, 1, size)),
                              !.bytes_hashed = u64(ctx.bytes_hashed + size)]>>

\* cb_verify_ctx_update(ctx, data, size): <<return code, context>>
cb_verify_ctx_update(ctx, data, size) ==
    IF data = NullData /\ size > 0 THEN <<CB_ERR_NULL_PTR, ctx>>
    ELSE IF ctx.finalised THEN <<CB_ERR_INVALID_CONFIG, ctx>>
    ELSE IF size = 0 THEN <<CB_OK, ctx>>
    ELSE <<CB_OK, [ctx EXCEPT !.state = sha256_update(ctx.state, SubSeq(data, 1, size)),
                              !.bytes_hashed = u64(ctx.bytes_hashed + size)]>>

\* cb_verify_ctx_final(ctx, hash): <<context, digest>>
cb_verify_ctx_final(ctx) ==
    LET f == sha256_final(ctx.state)
    IN  <<[ctx EXCEPT !.state = f.state, !.finalised = TRUE], f.hash>>

\* cb_compute_hash(data, size, hash): init, update, final on a local context
cb_compute_hash(data) ==
    cb_verify_ctx_final(cb_verify_ctx_update(cb_verify_ctx_init, data, Len(data))[2])[2]

\* a comparison of digests that stops at the first byte
cb_hash_equal_first_byte(a, b) == HashByte(a, 1) = HashByte(b, 1)

\* cb_hash_equal(a, b): diff accumulates a->bytes[i] ^ b->bytes[i] over all
\* 32 positions; the result is diff == 0.
cb_hash_equal(a, b) == ~ \E i \in 1..CB_HASH_SIZE : HashByte(a, i) # HashByte(b, i)

\* ------------------------------------------------------------------------
\* Fault flags (cb_types.h)
\* ------------------------------------------------------------------------
NoFaults == [overflow |-> FALSE, underflow |-> FALSE, div_zero |-> FALSE,
             timer_error |-> FALSE, verify_fail |-> FALSE, thermal_drift |-> FALSE]

FaultNames == DOMAIN NoFaults

\* cb_fault_clear
cb_fault_clear(f) == NoFaults

\* cb_has_fault: any hard fault
cb_has_fault(f) ==
    f.overflow \/ f.underflow \/ f.div_zero \/ f.timer_error \/ f.verify_fail

\* cb_has_warning
cb_has_warning(f) == f.thermal_drift

\* cb_result_is_valid
cb_result_is_valid(result) ==
    IF cb_has_fault(result.faults) THEN FALSE
    ELSE IF result.verification_failures > 0 THEN FALSE
    ELSE TRUE

\* ------------------------------------------------------------------------
\* Statistics (metrics.c)
\* ------------------------------------------------------------------------
\* the binary search with mid * mid <= n as its test, the product taken in
\* the word
RECURSIVE isqrt_loop_squaring(_, _, _)
isqrt_loop_squaring(lo, hi, n) ==
    IF lo < hi
    THEN LET mid == u64(lo + u64(hi - lo + 1) \div 2)
         IN  IF u64(mid * mid) <= n
             THEN isqrt_loop_squaring(mid, hi, n)
             ELSE isqrt_loop_squaring(lo, u64(mid - 1), n)
    ELSE lo

\* the binary search of cb_isqrt64
RECURSIVE isqrt_loop(_, _, _)
isqrt_loop(lo, hi, n) ==
    IF lo < hi
    THEN LET mid == u64(lo + u64(hi - lo + 1) \div 2)
         IN  IF mid <= n \div mid
             THEN isqrt_loop(mid, hi, n)
             ELSE isqrt_loop(lo, u64(mid - 1), n)
    ELSE lo

cb_isqrt64(n) == IF n = 0 THEN 0 ELSE isqrt_loop(1, n, n)

\* the inner while loop of insertion_sort_u64: shifts the larger elements of
\* arr[0..j-1] one place up and drops key into the gap (j is 0-based).
RECURSIVE insert_key(_, _, _)
insert_key(arr, j, key) ==
    IF j > 0 /\ arr[j] > key
    THEN insert_key([arr EXCEPT ![j + 1] = arr[j]], j - 1, key)
    ELSE [arr EXCEPT ![j + 1] = key]

RECURSIVE insertion_loop(_, _, _)
insertion_loop(arr, i, count) ==
    IF i < count
    THEN insertion_loop(insert_key(arr, i, arr[i + 1]), i + 1, count)
    ELSE arr

insertion_sort_u64(arr, count) == insertion_loop(arr, 1, count)

Swap(arr, a, b) == [arr EXCEPT ![a + 1] = arr[b + 1], ![b + 1] = arr[a + 1]]

\* heapify_u64(arr, count, i), indices 0-based as in the code
RECURSIVE heapify_u64(_, _, _)
heapify_u64(arr, count, i) ==
    LET left == 2 * i + 1
        right == 2 * i + 2
        l1 == IF left < count /\ arr[left + 1] > arr[i + 1] THEN left ELSE i
        largest == IF right < count /\ arr[right + 1] > arr[l1 + 1] THEN right ELSE l1
    IN  IF largest # i
        THEN heapify_u64(Swap(arr, i, largest), count, largest)
        ELSE arr

RECURSIVE heap_build(_, _, _)
heap_build(arr, count, i) ==
    IF i > 0 THEN heap_build(heapify_u64(arr, count, i - 1), count, i - 1) ELSE arr

RECURSIVE heap_extract(_, _)
heap_extract(arr, i) ==
    IF i > 0 THEN heap_extract(heapify_u64(Swap(arr, 0, i), i, 0), i - 1) ELSE arr

heapsort_u64(arr, count) == heap_extract(heap_build(arr, count, count \div 2), count - 1)

\* cb_sort_u64
cb_sort_u64(arr, count) ==
    IF count <= 1 THEN arr
    ELSE IF count <= SORT_THRESHOLD THEN insertion_sort_u64(arr, count)
    ELSE heapsort_u64(arr, count)

\* cb_percentile(sorted_samples, count, percentile)
cb_percentile(sorted_samples, count, percentile) ==
    IF count = 0 THEN 0
    ELSE IF count = 1 THEN sorted_samples[1]
    ELSE LET p == IF percentile > 100 THEN 100 ELSE percentile
             rank_scaled == u64(p * (count - 1))
             rank == rank_scaled \div 100
             frac == rank_scaled % 100
             lower == sorted_samples[rank + 1]
             upper == IF rank + 1 < count THEN sorted_samples[rank + 2] ELSE lower
         IN  IF upper >= lower
             THEN u64(lower + u64((upper - lower) * frac) \div 100)
             ELSE lower

\* would_overflow_add
would_overflow_add(a, b) == a > UINT64_MAX - b

\* the first pass of cb_compute_stats over samples[i..count-1] (i 0-based):
\* sum with overflow detection, min, max and Welford's M and S.
RECURSIVE stats_pass(_, _, _, _)
stats_pass(samples, count, i, acc) ==
    IF i < count
    THEN LET x == samples[i + 1]
             ovf == would_overflow_add(acc.sum, x)
             delta == i64(i64(x) - acc.M)
             M1 == i64(acc.M + cdiv(delta, i + 1))
             delta2 == i64(i64(x) - M1)
         IN  stats_pass(samples, count, i + 1,
                 [sum |-> IF ovf THEN acc.sum ELSE acc.sum + x,
                  overflow_detected |-> acc.overflow_detected \/ ovf,
                  min_val |-> IF x < acc.min_val THEN x ELSE acc.min_val,
                  max_val |-> IF x > acc.max_val THEN x ELSE acc.max_val,
                  M |-> M1,
                  S |-> i64(acc.S + delta * delta2)])
    ELSE acc

\* the outlier count of cb_compute_stats (mean + 3 sigma threshold)
RECURSIVE count_above(_, _, _)
count_above(samples, i, thresh) ==
    IF i > Len(samples) THEN 0
    ELSE (IF samples[i] > thresh THEN 1 ELSE 0) + count_above(samples, i + 1, thresh)

ZeroStats == [min_ns |-> 0, max_ns |-> 0, mean_ns |-> 0, median_ns |-> 0,
              p95_ns |-> 0, p99_ns |-> 0, stddev_ns |-> 0, variance_ns2 |-> 0,
              sample_count |-> 0, outlier_count |-> 0,
              wcet_observed_ns |-> 0, wcet_bound_ns |-> 0]

\* max + 6 * stddev taken in the word without the overflow protection
wcet_bound_unprotected(max_val, stddev) == <<u64(max_val + WCET_SIGMA * stddev), FALSE>>

\* the WCET bound of cb_compute_stats: <<wcet_bound_ns, overflow>>
wcet_bound(max_val, stddev) ==
    IF stddev <= (UINT64_MAX - max_val) \div WCET_SIGMA
    THEN <<max_val + WCET_SIGMA * stddev, FALSE>>
    ELSE <<max_val, TRUE>>

\* cb_compute_stats(samples, count, stats, faults): the first count entries of
\* samples are read and sorted in place.
cb_compute_stats(samples, count, faults) ==
    IF count = 0
    THEN [rc |-> CB_ERR_OVERFLOW, samples |-> samples, stats |-> ZeroStats,
          faults |-> [faults EXCEPT !.div_zero = TRUE]]
    ELSE LET acc == stats_pass(samples, count, 0,
                        [sum |-> 0, overflow_detected |-> FALSE,
                         min_val |-> samples[1], max_val |-> samples[1],
                         M |-> 0, S |-> 0])
             mean == IF ~acc.overflow_detected THEN acc.sum \div count ELSE u64(acc.M)
             variance == IF count > 1 THEN u64(cdiv(acc.S, count - 1)) ELSE 0
             stddev == IF count > 1 THEN cb_isqrt64(variance) ELSE 0
             sorted == cb_sort_u64(SubSeq(samples, 1, count), count)
                           \o SubSeq(samples, count + 1, Len(samples))
             wb == wcet_bound(acc.max_val, stddev)
             outlier_thresh == u64(mean + 3 * stddev)
         IN  [rc |-> IF acc.overflow_detected THEN CB_ERR_OVERFLOW ELSE CB_OK,
              samples |-> sorted,
              stats |-> [min_ns |-> acc.min_val,
                         max_ns |-> acc.max_val,
                         mean_ns |-> mean,
                         median_ns |-> cb_percentile(sorted, count, 50),
                         p95_ns |-> cb_percentile(sorted, count, 95),
                         p99_ns |-> cb_percentile(sorted, count, 99),
                         stddev_ns |-> stddev,
                         variance_ns2 |-> variance,
                         sample_count |-> count,
                         outlier_count |-> IF stddev > 0
                                           THEN count_above(SubSeq(sorted, 1, count), 1,
                                                            outlier_thresh)
                                           ELSE 0,
                         wcet_observed_ns |-> acc.max_val,
                         wcet_bound_ns |-> wb[1]],
              faults |-> [faults EXCEPT
                             !.overflow = @ \/ acc.overflow_detected \/ wb[2]]]

\* ------------------------------------------------------------------------
\* Environmental monitoring (platform.c)
\* ------------------------------------------------------------------------
ZeroSnapshot == [timestamp_ns |-> 0, cpu_freq_hz |-> 0, cpu_temp_mC |-> 0,
                 throttle_count |-> 0]

\* cb_env_compute_stats(start, end, stats)
cb_env_compute_stats(start, end) ==
    [start |-> start,
     end |-> end,
     min_freq_hz |-> IF start.cpu_freq_hz < end.cpu_freq_hz
                     THEN start.cpu_freq_hz ELSE end.cpu_freq_hz,
     max_freq_hz |-> IF start.cpu_freq_hz > end.cpu_freq_hz
                     THEN start.cpu_freq_hz ELSE end.cpu_freq_hz,
     min_temp_mC |-> IF start.cpu_temp_mC < end.cpu_temp_mC
                     THEN start.cpu_temp_mC ELSE end.cpu_temp_mC,
     max_temp_mC |-> IF start.cpu_temp_mC > end.cpu_temp_mC
                     THEN start.cpu_temp_mC ELSE end.cpu_temp_mC,
     total_throttle_events |-> IF end.throttle_count >= start.throttle_count
                               THEN end.throttle_count - start.throttle_count
                               ELSE 0]

ZeroEnvStats == cb_env_compute_stats(ZeroSnapshot, ZeroSnapshot)

\* cb_env_check_stable(stats)
cb_env_check_stable(stats) ==
    IF stats.start.cpu_freq_hz = 0 THEN TRUE
    ELSE LET end_scaled == u64(stats.end.cpu_freq_hz * 100)
             threshold == u64(stats.start.cpu_freq_hz * 95)
         IN  IF end_scaled < threshold THEN FALSE
             ELSE IF stats.total_throttle_events > 0 THEN FALSE
             ELSE TRUE

\* cb_env_is_stable(env), the inline predicate of cb_types.h
cb_env_is_stable(env) ==
    LET threshold == u64(env.start.cpu_freq_hz * 95) \div 100
    IN  IF env.end.cpu_freq_hz < threshold THEN FALSE
        ELSE IF env.total_throttle_events > 0 THEN FALSE
        ELSE TRUE

\* ------------------------------------------------------------------------
\* Result binding (verify.c)
\* ------------------------------------------------------------------------
\* write_le64(buf, value)
write_le64(value) == [k \in 1..8 |-> Byte(shr(value, 8 * (k - 1)) % 256)]

\* "CB:RESULT:v1"
BindingPrefix == [k \in 1..12 |-> Byte(<<67, 66, 58, 82, 69, 83, 85, 76, 84, 58, 118, 49>>[k])]

\* the padded platform field with one character less copied
platform_padded_short(platform) ==
    [k \in 1..32 |-> IF k <= Len(platform) /\ k <= 30 THEN Byte(platform[k]) ELSE Byte(0)]

\* memset(platform_padded, 0, 32); strncpy(platform_padded, platform, 31)
platform_padded(platform) ==
    [k \in 1..32 |-> IF k <= Len(platform) /\ k <= 31 THEN Byte(platform[k]) ELSE Byte(0)]

\* the byte sequence cb_compute_result_hash feeds to the hasher, one update
\* per element
BindingChunks(output_hash, platform, config_hash, stats, timestamp_unix) ==
    << BindingPrefix, HashBytes(output_hash), platform_padded(platform), write_le64(config_hash),
       write_le64(stats.min_ns), write_le64(stats.max_ns), write_le64(stats.mean_ns),
       write_le64(stats.p99_ns), write_le64(timestamp_unix) >>

RECURSIVE update_all(_, _, _)
update_all(ctx, chunks, k) ==
    IF k > Len(chunks) THEN ctx
    ELSE update_all(cb_verify_ctx_update(ctx, chunks[k], Len(chunks[k]))[2], chunks, k + 1)

\* cb_compute_result_hash
cb_compute_result_hash(output_hash, platform, config_hash, stats, timestamp_unix) ==
    cb_verify_ctx_final(
        update_all(cb_verify_ctx_init,
                   BindingChunks(output_hash, platform, config_hash, stats, timestamp_unix),
                   1))[2]

\* cb_compute_result_binding forwards to cb_compute_result_hash
cb_compute_result_binding(output_hash, platform, config_hash, stats, timestamp_unix) ==
    cb_compute_result_hash(output_hash, platform, config_hash, stats, timestamp_unix)

\* ------------------------------------------------------------------------
\* State
\* ------------------------------------------------------------------------
VARIABLES
    runner,         \* the caller's cb_runner_t
    sample_buffer,  \* the caller's sample buffer (uint64_t[])
    output,         \* the caller's output buffer as the runner last read it
    g_timer,        \* timer.c globals: g_timer_initialized, g_timer_state, g_timer_faults
    clock,          \* CLOCK_MONOTONIC, in ns
    call,           \* the runner call in progress and its loop index
    ret,            \* the last runner call that returned, its return code, and
                    \* whether it got past its argument checks
    result,         \* the caller's cb_result_t
    obs,            \* what a test harness around the runner observes
    ops,            \* number of runner calls made so far
    limits,         \* how many runner calls and how many failures are explored
    bench,          \* position of cb_run_benchmark's caller
    cmp,            \* cb_compare_results: the two results and the comparison
    hasher,         \* a cb_verify_ctx_t used directly, and what was fed to it
    statcall,       \* cb_compute_stats: the samples and what the call left
    envcall         \* cb_env_check_stable: the record and the verdict

vars == <<runner, sample_buffer, output, g_timer, clock, call, ret, result, obs, ops,
          limits, bench, cmp, hasher, statcall, envcall>>

\* ------------------------------------------------------------------------
\* Inputs
\* ------------------------------------------------------------------------
\* values the inference function writes to a byte of the output buffer
OutputByteVals == {Byte(7), Byte(9)}

\* what an inference call can leave in the first output_size bytes of the
\* output buffer
Outputs(output_size) == [1..output_size -> OutputByteVals]

\* the output buffer after the inference function has written out to it
written(buf, out) == [i \in 1..Len(buf) |-> IF i <= Len(out) THEN out[i] ELSE buf[i]]

\* the caller's inference function, and the codes it may return when it fails
Fns == {"fn"}
FailCodes == {CB_ERR_VERIFICATION, CB_ERR_MODEL_LOAD}
NULL == "NULL"

\* durations of one inference call, ns
Ticks == {1, 2}

\* what the sysfs probes of cb_env_snapshot can read: the nominal state, a
\* lowered cpu frequency, a throttle event counted
NominalReading == [cpu_freq_hz |-> 20, cpu_temp_mC |-> 40, throttle_count |-> 0]
EnvReadings ==
    {NominalReading,
     [cpu_freq_hz |-> 18, cpu_temp_mC |-> 40, throttle_count |-> 0],
     [cpu_freq_hz |-> 20, cpu_temp_mC |-> 45, throttle_count |-> 1]}

\* wall-clock seconds
TimeVals == {1000, 1001}

\* cb_platform_name(): "x86_64"
PlatformName == <<120, 56, 54, 95, 54, 52>>

\* configurations offered to runner_init: the valid ones, and one for each
\* way cb_config_validate rejects
BaseConfig ==
    [warmup_iterations |-> 0, measure_iterations |-> 1, batch_size |-> 2,
     timer_source |-> CB_TIMER_AUTO, verify_outputs |-> FALSE,
     collect_histogram |-> FALSE, histogram_bins |-> 100,
     histogram_min_ns |-> 0, histogram_max_ns |-> 10,
     monitor_environment |-> FALSE]

ValidConfigs ==
    {[BaseConfig EXCEPT !.warmup_iterations = w, !.measure_iterations = m,
                        !.verify_outputs = v, !.monitor_environment = e] :
        w \in 0..MaxWarmup, m \in 1..MaxMeasure, v \in BOOLEAN, e \in BOOLEAN}

InvalidConfigs ==
    {[BaseConfig EXCEPT !.measure_iterations = 0],
     [BaseConfig EXCEPT !.batch_size = 0],
     [BaseConfig EXCEPT !.measure_iterations = CB_MAX_SAMPLES + 1],
     [BaseConfig EXCEPT !.collect_histogram = TRUE, !.histogram_bins = 0],
     [BaseConfig EXCEPT !.collect_histogram = TRUE,
                        !.histogram_bins = CB_MAX_HISTOGRAM + 1],
     [BaseConfig EXCEPT !.collect_histogram = TRUE, !.histogram_max_ns = 0]}

Configs == ValidConfigs \cup InvalidConfigs

\* arguments offered to runner_init: <<config, sample_buffer, buffer_capacity>>
\* and whether a clock read of cb_timer_init fails. Every valid configuration
\* comes with a buffer of exactly the capacity it needs and with one that is
\* one sample short; the invalid ones and the NULL buffer come once.
InitArgs ==
    {<<c, "sample_buffer", c.measure_iterations, f>> : c \in ValidConfigs, f \in BOOLEAN}
    \cup {<<c, "sample_buffer", c.measure_iterations - 1, FALSE>> : c \in ValidConfigs}
    \cup {<<c, "sample_buffer", MaxMeasure, FALSE>> : c \in InvalidConfigs}
    \cup {<<[BaseConfig EXCEPT !.collect_histogram = TRUE], "sample_buffer", 1, FALSE>>}
    \cup {<<BaseConfig, NULL, MaxMeasure, FALSE>>}

\* ------------------------------------------------------------------------
\* Zeroed objects
\* ------------------------------------------------------------------------
ZeroConfig ==
    [warmup_iterations |-> 0, measure_iterations |-> 0, batch_size |-> 0,
     timer_source |-> CB_TIMER_AUTO, verify_outputs |-> FALSE,
     collect_histogram |-> FALSE, histogram_bins |-> 0,
     histogram_min_ns |-> 0, histogram_max_ns |-> 0,
     monitor_environment |-> FALSE]

\* memset(runner, 0, sizeof(*runner))
ZeroRunner ==
    [config |-> ZeroConfig, samples |-> NULL, sample_capacity |-> 0,
     samples_collected |-> 0, verify_ctx |-> ZeroCtx, env_start |-> ZeroSnapshot,
     benchmark_start_ns |-> 0, initialised |-> FALSE, warmup_complete |-> FALSE,
     faults |-> NoFaults]

\* memset(result, 0, sizeof(*result))
ZeroResult ==
    [platform |-> <<>>, warmup_iterations |-> 0, measure_iterations |-> 0,
     batch_size |-> 0, latency |-> ZeroStats,
     throughput |-> [inferences_per_sec |-> 0, samples_per_sec |-> 0,
                     bytes_per_sec |-> 0, batch_size |-> 0],
     environment |-> ZeroEnvStats, env_stable |-> FALSE,
     determinism_verified |-> FALSE, verification_failures |-> 0,
     output_hash |-> ZeroHash, result_hash |-> ZeroHash,
     benchmark_start_ns |-> 0, benchmark_end_ns |-> 0, benchmark_duration_ns |-> 0,
     timestamp_unix |-> 0, faults |-> NoFaults]

\* memset(comparison, 0, sizeof(*comparison))
ZeroComparison ==
    [platform_a |-> <<>>, platform_b |-> <<>>,
     outputs_identical |-> FALSE, comparable |-> FALSE,
     latency_diff_ns |-> 0, latency_ratio_q16 |-> 0,
     throughput_diff |-> 0, throughput_ratio_q16 |-> 0,
     wcet_diff_ns |-> 0, wcet_ratio_q16 |-> 0]

\* ------------------------------------------------------------------------
\* Timer (timer.c)
\* ------------------------------------------------------------------------
ZeroTimer == [initialized |-> FALSE, source |-> CB_TIMER_AUTO, faults |-> NoFaults]

\* posix_now_ns(): clock_gettime either fails (fail) or reads the clock.
\* Returns the value and the timer globals it leaves.
posix_now_ns(g, fail, clk) ==
    IF fail
    THEN [value |-> 0, g |-> [g EXCEPT !.faults.timer_error = TRUE]]
    ELSE [value |-> clk, g |-> g]

\* cb_timer_now_ns(): every implemented source reads the POSIX clock
cb_timer_now_ns(g, fail, clk) ==
    IF ~g.initialized
    THEN [value |-> 0, g |-> [g EXCEPT !.faults.timer_error = TRUE]]
    ELSE posix_now_ns(g, fail, clk)

\* cb_timer_init(source): rdtsc_available, cntvct_available and
\* riscv_available all return false, so every request selects the POSIX
\* clock; the test read and the calibration reads go through posix_now_ns,
\* and read_failed says that one of them failed.
cb_timer_init(source, read_failed) ==
    [selected |-> CB_TIMER_POSIX,
     g |-> [initialized |-> TRUE, source |-> CB_TIMER_POSIX,
            faults |-> [NoFaults EXCEPT !.timer_error = read_failed]]]

\* cb_env_snapshot(snapshot): the timestamp is a timer read, the rest are
\* what the sysfs probes return
cb_env_snapshot(now, reading) ==
    [timestamp_ns |-> now, cpu_freq_hz |-> reading.cpu_freq_hz,
     cpu_temp_mC |-> reading.cpu_temp_mC, throttle_count |-> reading.throttle_count]

\* ------------------------------------------------------------------------
\* Runner (runner.c)
\* ------------------------------------------------------------------------
\* a validation that does not look at batch_size
cb_config_validate_no_batch(config) ==
    IF config.measure_iterations = 0 \/ config.measure_iterations > CB_MAX_SAMPLES
    THEN CB_ERR_INVALID_CONFIG
    ELSE CB_OK

\* cb_config_validate(config)
cb_config_validate(config) ==
    IF config.measure_iterations = 0 THEN CB_ERR_INVALID_CONFIG
    ELSE IF config.batch_size = 0 THEN CB_ERR_INVALID_CONFIG
    ELSE IF config.measure_iterations > CB_MAX_SAMPLES THEN CB_ERR_INVALID_CONFIG
    ELSE IF config.collect_histogram
              /\ (config.histogram_bins = 0 \/ config.histogram_bins > CB_MAX_HISTOGRAM)
         THEN CB_ERR_INVALID_CONFIG
    ELSE IF config.collect_histogram
              /\ config.histogram_max_ns <= config.histogram_min_ns
         THEN CB_ERR_INVALID_CONFIG
    ELSE CB_OK

\* number of failures (clock reads, inference calls) injected by this step
Injected(fails) == Cardinality({k \in DOMAIN fails : fails[k]})
CanInject(fails) == obs.injected + Injected(fails) <= limits.faults

Idle == [op |-> "idle", via |-> "idle", i |-> 0, fn |-> NULL, output_size |-> 0]

\* what the harness notes when a runner call gets past its argument checks
BeginObs == [obs EXCEPT !.fn_calls = 0, !.meas_calls = 0, !.fail_rc = CB_OK,
                        !.meas_failed = FALSE,
                        !.was_warm = runner.warmup_complete,
                        !.repeat = FALSE]

\* a runner call returns rc from its argument checks. It changes nothing,
\* so what can follow it is what can follow the state it was made in: the
\* behaviours explored end with it.
Reject(op, rc) ==
    /\ ret' = [op |-> op, rc |-> rc, accepted |-> FALSE]
    /\ ops' = limits.ops
    /\ UNCHANGED <<runner, sample_buffer, output, g_timer, clock, call, result, obs>>

\* cb_runner_init returns rc from its argument checks; what it was called
\* with is noted with the return code
RejectInit(rc, args) ==
    /\ ret' = [op |-> "init", rc |-> rc, accepted |-> FALSE, args |-> args]
    /\ ops' = limits.ops
    /\ UNCHANGED <<runner, sample_buffer, output, g_timer, clock, call, result, obs>>

\* a runner call that gets past its argument checks
Accept == ops' = ops + 1

\* an init that does not clear the runner
memset_runner_skipped(r) == r

\* memset(runner, 0, sizeof(*runner))
memset_runner(r) == ZeroRunner

\* an init that takes a buffer of any capacity
buffer_never_too_small(buffer_capacity, config) == FALSE

\* if (buffer_capacity < config->measure_iterations) return CB_ERR_INVALID_CONFIG;
buffer_too_small(buffer_capacity, config) == buffer_capacity < config.measure_iterations

\* cb_runner_init(runner, config, sample_buffer, buffer_capacity)
DoRunnerInit(config, buffer, buffer_capacity, read_failed) ==
    IF buffer = NULL THEN RejectInit(CB_ERR_NULL_PTR, <<config, buffer, buffer_capacity>>)
    ELSE IF cb_config_validate(config) # CB_OK
    THEN RejectInit(cb_config_validate(config), <<config, buffer, buffer_capacity>>)
    ELSE IF buffer_too_small(buffer_capacity, config)
    THEN RejectInit(CB_ERR_INVALID_CONFIG, <<config, buffer, buffer_capacity>>)
    ELSE LET t == cb_timer_init(config.timer_source, read_failed)
             r0 == [memset_runner(runner) EXCEPT !.config = config,
                                      !.samples = buffer,
                                      !.sample_capacity = buffer_capacity]
         IN  /\ Accept
             /\ CanInject(<<read_failed>>)
             /\ g_timer' = t.g
             /\ IF t.selected = CB_TIMER_AUTO
                THEN /\ runner' = [r0 EXCEPT !.samples = NULL]
                     /\ ret' = [op |-> "init", rc |-> CB_ERR_TIMER_INIT, accepted |-> TRUE,
                                 args |-> <<config, buffer, buffer_capacity>>]
                     /\ obs' = [BeginObs EXCEPT !.executed = FALSE,
                                                !.zeroed = TRUE,
                                                !.capacity = 0,
                                                !.injected = @ + Injected(<<read_failed>>)]
                ELSE /\ runner' = [r0 EXCEPT
                            !.verify_ctx = IF config.verify_outputs
                                           THEN cb_verify_ctx_init ELSE ZeroCtx,
                            !.faults = cb_fault_clear(r0.faults),
                            !.samples_collected = 0,
                            !.initialised = TRUE,
                            !.warmup_complete = FALSE]
                     /\ ret' = [op |-> "init", rc |-> CB_OK, accepted |-> TRUE,
                                 args |-> <<config, buffer, buffer_capacity>>]
                     /\ obs' = [BeginObs EXCEPT !.executed = FALSE,
                                                !.cleaned = FALSE,
                                                !.zeroed = TRUE,
                                                !.capacity = buffer_capacity,
                                                !.injected = @ + Injected(<<read_failed>>),
                                                !.clock_failed = read_failed,
                                                !.inf_failed = FALSE,
                                                !.got_result = FALSE,
                                                !.measured_outputs = <<>>]
             /\ UNCHANGED <<sample_buffer, output, clock, call, result>>

\* cb_runner_warmup(runner, fn, ctx, input, input_size, output, output_size),
\* up to the loop
DoWarmupBegin(fn, output_size) ==
    IF fn = NULL THEN Reject("warmup", CB_ERR_NULL_PTR)
    ELSE IF ~runner.initialised THEN Reject("warmup", CB_ERR_INVALID_CONFIG)
    ELSE /\ call' = [op |-> "warmup", via |-> "warmup", i |-> 0, fn |-> fn,
                     output_size |-> output_size]
         /\ obs' = BeginObs
         /\ Accept
         /\ UNCHANGED <<runner, sample_buffer, output, g_timer, clock, ret, result>>

\* a warmup loop that runs once more than configured
warmup_loop_once_more(i, config) == i <= config.warmup_iterations

\* the conditions of the warmup loop and of the measurement loop
warmup_loop(i, config) == i < config.warmup_iterations
measure_loop(i, config) == i < config.measure_iterations

\* a warmup loop that carries on after a failed call
warmup_never_aborts(rc) == FALSE

\* if (rc != CB_OK) return rc; in the warmup loop
warmup_aborts(rc) == rc # CB_OK

\* one pass of the warmup loop: rc = fn(ctx, input, output); a failure
\* returns rc from warmup, and from execute when execute called it. What
\* the call leaves in the output buffer is never read.
WarmupIter ==
    /\ call.op = "warmup"
    /\ warmup_loop(call.i, runner.config)
    /\ \E rc \in {CB_OK} \cup FailCodes, d \in Ticks :
        /\ clock + d <= limits.clock
        /\ CanInject(<<rc # CB_OK>>)
        /\ clock' = clock + d
        /\ obs' = [obs EXCEPT !.fn_calls = @ + 1,
                              !.fail_rc = IF rc # CB_OK THEN rc ELSE @,
                              !.injected = @ + Injected(<<rc # CB_OK>>)]
        /\ IF warmup_aborts(rc)
           THEN call' = Idle /\ ret' = [op |-> call.via, rc |-> rc, accepted |-> TRUE]
           ELSE call' = [call EXCEPT !.i = @ + 1] /\ ret' = ret
    /\ UNCHANGED <<runner, sample_buffer, output, g_timer, result, ops, limits, bench, cmp, hasher, statcall, envcall>>

\* after the warmup loop: the start snapshot, benchmark_start_ns and
\* warmup_complete; warmup returns CB_OK, execute goes on to its loop
WarmupEnd ==
    /\ call.op = "warmup"
    /\ ~warmup_loop(call.i, runner.config)
    /\ \E fail1 \in BOOLEAN, fail2 \in BOOLEAN, reading \in EnvReadings :
        LET monitor == runner.config.monitor_environment
            t1 == IF monitor THEN cb_timer_now_ns(g_timer, fail1, clock)
                  ELSE [value |-> 0, g |-> g_timer]
            t2 == cb_timer_now_ns(t1.g, fail2, clock)
        IN  /\ monitor \/ (~fail1 /\ reading = NominalReading)
            /\ CanInject(<<fail1, fail2>>)
            /\ runner' = [runner EXCEPT
                   !.env_start = IF monitor
                                 THEN cb_env_snapshot(t1.value, reading)
                                 ELSE @,
                   !.benchmark_start_ns = t2.value,
                   !.warmup_complete = TRUE]
            /\ g_timer' = t2.g
            /\ obs' = [obs EXCEPT
                   !.clock_failed = @ \/ (monitor /\ fail1) \/ fail2,
                   !.injected = @ + Injected(<<fail1, fail2>>),
                   !.measured_outputs = IF call.via = "execute" THEN <<>> ELSE @]
    /\ IF call.via = "execute"
       THEN call' = [call EXCEPT !.op = "measure", !.i = 0] /\ ret' = ret
       ELSE call' = Idle /\ ret' = [op |-> "warmup", rc |-> CB_OK, accepted |-> TRUE]
    /\ UNCHANGED <<sample_buffer, output, clock, result, ops, limits, bench, cmp, hasher, statcall, envcall>>

\* if (!runner->warmup_complete) in cb_runner_execute
needs_warmup(r) == ~r.warmup_complete

\* cb_runner_execute(runner, fn, ctx, input, input_size, output, output_size),
\* up to its warmup or its loop
DoExecuteBegin(fn, output_size) ==
    IF fn = NULL THEN Reject("execute", CB_ERR_NULL_PTR)
    ELSE IF ~runner.initialised THEN Reject("execute", CB_ERR_INVALID_CONFIG)
    ELSE /\ call' = [op |-> IF needs_warmup(runner) THEN "warmup" ELSE "measure",
                     via |-> "execute", i |-> 0, fn |-> fn,
                     output_size |-> output_size]
         /\ obs' = [BeginObs EXCEPT
                !.measured_outputs = IF needs_warmup(runner) THEN @ ELSE <<>>]
         /\ Accept
         /\ UNCHANGED <<runner, sample_buffer, output, g_timer, clock, ret, result>>

\* samples[i] = t_end - t_start
sample_delta(t_start, t_end) == u64(t_end - t_start)

\* an iteration that assigns the fault flags instead of setting them
iteration_faults_assigned(faults, t_start, t_end, rc) ==
    [faults EXCEPT !.timer_error = (t_end < t_start),
                   !.verify_fail = (rc # CB_OK)]

\* an iteration that does not look at the return code of the inference call
iteration_faults_timer_only(faults, t_start, t_end, rc) ==
    [faults EXCEPT !.timer_error = @ \/ (t_end < t_start)]

\* the faults of one measured iteration: a wrapped timer, a failed inference
iteration_faults(faults, t_start, t_end, rc) ==
    [faults EXCEPT !.timer_error = @ \/ (t_end < t_start),
                   !.verify_fail = @ \/ (rc # CB_OK)]

\* the hasher after one measured iteration
iteration_hash(ctx, verify_outputs, out, output_size) ==
    IF verify_outputs /\ output_size > 0
    THEN cb_verify_ctx_update(ctx, out, output_size)[2]
    ELSE ctx

\* one pass of the measurement loop
MeasureIter ==
    /\ call.op = "measure"
    /\ measure_loop(call.i, runner.config)
    /\ \E fail1 \in BOOLEAN, ok \in BOOLEAN, err \in FailCodes,
          out \in Outputs(call.output_size), d \in Ticks, fail2 \in BOOLEAN :
        LET t_start == cb_timer_now_ns(g_timer, fail1, clock)
            rc == IF ok THEN CB_OK ELSE err
            t_end == cb_timer_now_ns(t_start.g, fail2, clock + d)
        IN  /\ clock + d <= limits.clock
            /\ CanInject(<<fail1, ~ok, fail2>>)
            /\ clock' = clock + d
            /\ output' = IF runner.config.verify_outputs /\ call.output_size > 0
                         THEN written(output, out) ELSE output
            /\ g_timer' = t_end.g
            /\ sample_buffer' = [sample_buffer EXCEPT
                   ![call.i + 1] = sample_delta(t_start.value, t_end.value)]
            /\ runner' = [runner EXCEPT
                   !.faults = iteration_faults(@, t_start.value, t_end.value, rc),
                   !.verify_ctx = iteration_hash(@, runner.config.verify_outputs,
                                                 written(output, out),
                                                 call.output_size)]
            /\ obs' = [obs EXCEPT
                   !.fn_calls = @ + 1,
                   !.meas_calls = @ + 1,
                   !.meas_failed = @ \/ ~ok,
                   !.inf_failed = @ \/ ~ok,
                   !.clock_failed = @ \/ fail1 \/ fail2,
                   !.injected = @ + Injected(<<fail1, ~ok, fail2>>),
                   !.measured_outputs = IF runner.config.verify_outputs
                                        THEN @ \o out ELSE @]
    /\ call' = [call EXCEPT !.i = @ + 1]
    /\ UNCHANGED <<ret, result, ops, limits, bench, cmp, hasher, statcall, envcall>>

\* after the measurement loop
MeasureEnd ==
    /\ call.op = "measure"
    /\ ~measure_loop(call.i, runner.config)
    /\ runner' = [runner EXCEPT !.samples_collected = runner.config.measure_iterations]
    /\ call' = Idle
    /\ ret' = [op |-> "execute", rc |-> CB_OK, accepted |-> TRUE]
    /\ obs' = [obs EXCEPT !.executed = TRUE]
    /\ UNCHANGED <<sample_buffer, output, g_timer, clock, result, ops, limits, bench, cmp, hasher, statcall, envcall>>

\* (uint64_t)a * b
umul(a, b) == u64(u64(a) * u64(b))

\* total_latency_ns: the sum of samples[0..count-1]
RECURSIVE total_latency(_, _)
total_latency(samples, count) ==
    IF count = 0 THEN 0
    ELSE u64(total_latency(samples, count - 1) + samples[count])

\* the throughput block of cb_runner_get_result
throughput_of(samples, count, batch_size) ==
    LET total_latency_ns == total_latency(samples, count)
        ips == IF total_latency_ns > 0
               THEN umul(count, CB_NS_PER_SEC) \div total_latency_ns
               ELSE 0
    IN  [inferences_per_sec |-> ips,
         samples_per_sec |-> umul(ips, batch_size),
         bytes_per_sec |-> 0,
         batch_size |-> batch_size]

\* the environment block of cb_runner_get_result, applied to the cleared
\* result: environment, env_stable and the thermal_drift flag
environment_block(res, env_start, env_end) ==
    LET env_stats == cb_env_compute_stats(env_start, env_end)
        env_stable == cb_env_check_stable(env_stats)
    IN  [res EXCEPT !.environment = env_stats,
                    !.env_stable = env_stable,
                    !.faults.thermal_drift = IF ~env_stable THEN TRUE ELSE @]

\* a verification block that binds the end of the benchmark into the result
verification_block_binds_end(res, verify_ctx, faults) ==
    LET output_hash == cb_verify_ctx_final(verify_ctx)[2]
    IN  [res EXCEPT
            !.output_hash = output_hash,
            !.determinism_verified = ~faults.verify_fail,
            !.verification_failures = IF faults.verify_fail THEN 1 ELSE 0,
            !.result_hash = cb_compute_result_binding(output_hash, res.platform,
                                                      res.benchmark_end_ns,
                                                      res.latency, res.timestamp_unix)]

\* the verification block of cb_runner_get_result: the hasher is copied and
\* the copy finalised
verification_block(res, verify_ctx, faults) ==
    LET output_hash == cb_verify_ctx_final(verify_ctx)[2]
    IN  [res EXCEPT
            !.output_hash = output_hash,
            !.determinism_verified = ~faults.verify_fail,
            !.verification_failures = IF faults.verify_fail THEN 1 ELSE 0,
            !.result_hash = cb_compute_result_binding(output_hash, res.platform, 0,
                                                      res.latency, res.timestamp_unix)]

\* result->faults = runner->faults, then the statistics faults are merged
propagate_faults(res, runner_faults, stats_faults) ==
    [res EXCEPT !.faults = [runner_faults EXCEPT
                               !.overflow = @ \/ stats_faults.overflow,
                               !.div_zero = @ \/ stats_faults.div_zero]]

\* a get_result that finalises the runner's own hasher context
runner_finalised_in_place(r) ==
    [r EXCEPT !.verify_ctx = IF r.config.verify_outputs
                             THEN cb_verify_ctx_final(r.verify_ctx)[1] ELSE @]

\* the runner after cb_runner_get_result: it is passed as a pointer to const,
\* and the hasher context that is finalised is the local copy verify_copy
runner_after_result(r) == r

\* a guard that only looks at the initialised flag
get_result_guard_initialised_only(r) ==
    IF ~r.initialised THEN CB_ERR_INVALID_CONFIG ELSE CB_OK

\* the guard of cb_runner_get_result after its NULL checks
get_result_guard(r) ==
    IF ~r.initialised \/ r.samples_collected = 0 THEN CB_ERR_INVALID_CONFIG ELSE CB_OK

\* cb_runner_get_result(runner, result)
DoGetResult(result_null, fail_env, reading, fail_end, now_unix) ==
    IF result_null THEN Reject("get_result", CB_ERR_NULL_PTR)
    ELSE IF get_result_guard(runner) # CB_OK
    THEN Reject("get_result", get_result_guard(runner))
    ELSE LET n == runner.samples_collected
             monitor == runner.config.monitor_environment
             st == cb_compute_stats(sample_buffer, n, NoFaults)
             r1 == [ZeroResult EXCEPT
                       !.platform = PlatformName,
                       !.warmup_iterations = runner.config.warmup_iterations,
                       !.measure_iterations = runner.config.measure_iterations,
                       !.batch_size = runner.config.batch_size,
                       !.latency = st.stats,
                       !.throughput = throughput_of(st.samples, n,
                                                    runner.config.batch_size)]
             t1 == IF monitor THEN cb_timer_now_ns(g_timer, fail_env, clock)
                   ELSE [value |-> 0, g |-> g_timer]
             r2 == IF monitor
                   THEN environment_block(r1, runner.env_start,
                            cb_env_snapshot(t1.value, reading))
                   ELSE r1
             t2 == cb_timer_now_ns(t1.g, fail_end, clock)
             r3 == [r2 EXCEPT
                       !.benchmark_start_ns = runner.benchmark_start_ns,
                       !.benchmark_end_ns = t2.value,
                       !.benchmark_duration_ns = u64(t2.value - runner.benchmark_start_ns),
                       !.timestamp_unix = now_unix]
             r4 == IF runner.config.verify_outputs
                   THEN verification_block(r3, runner.verify_ctx, runner.faults)
                   ELSE r3
         IN  /\ Accept
             /\ monitor \/ (~fail_env /\ reading = NominalReading)
             /\ CanInject(<<fail_env, fail_end>>)
             /\ sample_buffer' = st.samples
             /\ g_timer' = t2.g
             /\ result' = propagate_faults(r4, runner.faults, st.faults)
             /\ ret' = [op |-> "get_result", rc |-> CB_OK, accepted |-> TRUE]
             /\ runner' = runner_after_result(runner)
             /\ obs' = [BeginObs EXCEPT
                    !.clock_failed = @ \/ (monitor /\ fail_env) \/ fail_end,
                    !.injected = @ + Injected(<<fail_env, fail_end>>),
                    !.repeat = (ret.op = "get_result" /\ ret.rc = CB_OK /\ ret.accepted),
                    !.got_result = TRUE]
             /\ UNCHANGED <<output, clock, call>>

\* cb_runner_cleanup(runner)
DoCleanup ==
    /\ Accept
    /\ runner' = [runner EXCEPT !.samples = NULL,
                                !.initialised = FALSE,
                                !.warmup_complete = FALSE,
                                !.sample_capacity = 0,
                                !.samples_collected = 0]
    /\ ret' = [op |-> "cleanup", rc |-> CB_OK, accepted |-> TRUE]
    /\ obs' = [BeginObs EXCEPT !.cleaned = TRUE]
    /\ UNCHANGED <<sample_buffer, output, g_timer, clock, call, result>>

\* ------------------------------------------------------------------------
\* The runner under a caller that makes any call at any time
\* ------------------------------------------------------------------------
NoBench == [pc |-> "off"]
NoCmp == [pc |-> "off"]
NoHasher == [pc |-> "off"]
NoStatCall == [pc |-> "off"]
NoEnvCall == [pc |-> "off"]

\* the library functions that are called directly are not in use
LibraryOff == hasher = NoHasher /\ statcall = NoStatCall /\ envcall = NoEnvCall

\* obs: inference calls and measured calls made by the call in progress (or
\* the last one), the code a failing inference call returned, whether a
\* measured call failed, whether the runner was warm when the call began, the
\* outputs of the measured calls of the last measurement loop (noted when
\* the runner verifies outputs), whether a
\* clock read or an inference call failed, whether an execute completed and
\* whether the runner was cleaned up since the last successful init, whether
\* the runner was zero-filled or initialised before its first use, the
\* number of failures so far, whether the last call was a get_result that
\* directly followed a successful get_result, whether a get_result
\* succeeded since the last successful init, and the capacity of the buffer
\* that the last successful init took (0 when there was none, or when a later
\* init cleared the runner and failed)
Obs0 == [fn_calls |-> 0, meas_calls |-> 0, fail_rc |-> CB_OK, meas_failed |-> FALSE,
         was_warm |-> FALSE, measured_outputs |-> <<>>, clock_failed |-> FALSE,
         inf_failed |-> FALSE, executed |-> FALSE, cleaned |-> FALSE,
         zeroed |-> TRUE, injected |-> 0, repeat |-> FALSE, got_result |-> FALSE,
         capacity |-> 0]

\* A cb_runner_t that was declared and never initialised holds whatever its
\* storage held: zeroes in static storage, anything in automatic storage.
\* StaleRunner stands for the contents that pass for a runner that has run.
StaleRunner ==
    [ZeroRunner EXCEPT !.config = BaseConfig, !.samples = "sample_buffer",
                       !.sample_capacity = 1, !.samples_collected = 1,
                       !.initialised = TRUE]

\* a cb_runner_t declared, a zeroed sample buffer, no timer yet
Fresh ==
    /\ runner \in {ZeroRunner, StaleRunner}
    /\ sample_buffer = [i \in 1..MaxMeasure |-> 0]
    /\ output = [i \in 1..MaxOutputSize |-> Byte(0)]
    /\ g_timer = ZeroTimer
    /\ clock = 1
    /\ call = Idle
    /\ ret = [op |-> "none", rc |-> CB_OK, accepted |-> TRUE]
    /\ result = ZeroResult
    /\ obs = [Obs0 EXCEPT !.zeroed = (runner = ZeroRunner)]
    /\ ops = 0

\* The behaviours explored: MaxOps runner calls in which every clock read
\* and every inference call succeeds, and MaxFaultOps runner calls in which
\* up to MaxFaults clock reads or inference calls fail.
Horizons == {[ops |-> MaxOps, faults |-> 0, clock |-> MaxClock],
             [ops |-> MaxFaultOps, faults |-> MaxFaults, clock |-> MaxClock]}

Init ==
    /\ Fresh
    /\ limits \in Horizons
    /\ bench = NoBench
    /\ cmp = NoCmp
    /\ LibraryOff

ApiCall == call.op = "idle" /\ ops < limits.ops /\ UNCHANGED <<limits, bench, cmp, hasher, statcall, envcall>>

RunnerInit ==
    /\ ApiCall
    /\ \E a \in InitArgs : DoRunnerInit(a[1], a[2], a[3], a[4])

RunnerWarmup ==
    /\ ApiCall
    /\ \E fn \in Fns \cup {NULL}, output_size \in 0..MaxOutputSize :
        DoWarmupBegin(fn, output_size)

RunnerExecute ==
    /\ ApiCall
    /\ \E fn \in Fns \cup {NULL}, output_size \in 0..MaxOutputSize :
        DoExecuteBegin(fn, output_size)

RunnerGetResult ==
    /\ ApiCall
    /\ \E result_null \in BOOLEAN, fail_env \in BOOLEAN, reading \in EnvReadings,
          fail_end \in BOOLEAN, now_unix \in TimeVals :
        DoGetResult(result_null, fail_env, reading, fail_end, now_unix)

RunnerCleanup ==
    /\ ApiCall
    /\ DoCleanup

Next ==
    \/ RunnerInit
    \/ RunnerWarmup
    \/ WarmupIter
    \/ WarmupEnd
    \/ RunnerExecute
    \/ MeasureIter
    \/ MeasureEnd
    \/ RunnerGetResult
    \/ RunnerCleanup

Spec == Init /\ [][Next]_vars

\* ------------------------------------------------------------------------
\* Properties of the runner
\* ------------------------------------------------------------------------
\* the runner call op has returned and nothing was called since; it had got
\* past its argument checks
Answered(op) == call.op = "idle" /\ ret.op = op
Returned(op) == Answered(op) /\ ret.accepted
ReturnedOK(op) == Returned(op) /\ ret.rc = CB_OK

\* a step that is a successful cb_runner_get_result, cb_runner_init
GetResultStep == call.op = "idle" /\ call'.op = "idle" /\ ops' = ops + 1
                     /\ ret'.op = "get_result" /\ ret'.rc = CB_OK
InitStep == call.op = "idle" /\ call'.op = "idle" /\ ops' = ops + 1
                /\ ret'.op = "init" /\ ret'.rc = CB_OK

\* C2 as stated: with verification on, the output hash of a result is the
\* SHA-256 of the outputs, in order, of the measured calls of the last
\* measurement loop, the ones whose latencies are in the sample buffer.
C2_OutputHashOfMeasuredCalls ==
    (ReturnedOK("get_result") /\ runner.config.verify_outputs /\ obs.zeroed)
        => cb_hash_equal(result.output_hash, cb_compute_hash(obs.measured_outputs))

\* a measured call fails in this step
MeasuredFailure == ~obs.meas_failed /\ obs'.meas_failed

C4_AfterFailure ==
    /\ (Returned("execute") /\ obs.meas_failed)
           => /\ ret.rc = CB_OK
              /\ obs.meas_calls = runner.config.measure_iterations
              /\ runner.samples_collected = runner.config.measure_iterations
              /\ runner.faults.verify_fail
    /\ (ReturnedOK("get_result") /\ obs.inf_failed) => ~cb_result_is_valid(result)

\* C4: a measured call that fails does not end execute: the measurement loop
\* goes on with verify_fail set, execute returns CB_OK after all
\* measure_iterations calls and samples, and a result assembled afterwards is
\* not valid.
C4_MeasuredFailureDoesNotAbort ==
    [][/\ MeasuredFailure => (call'.op = "measure" /\ runner'.faults.verify_fail)
       /\ C4_AfterFailure']_vars

\* execute went through a failing measured call, and a result was assembled
C4_Witness ==
    /\ ReturnedOK("get_result")
    /\ obs.inf_failed
    /\ runner.config.measure_iterations = MaxMeasure
    /\ result.faults.verify_fail

\* C5 as stated: when a clock read has failed since the runner was
\* initialised, the fault set of the result has timer_error.
C5_ClockFailureInResult ==
    (ReturnedOK("get_result") /\ obs.zeroed /\ obs.clock_failed)
        => result.faults.timer_error

\* C6: a fault flag set on the runner is cleared by nothing but a successful
\* init, and every result assembled from the runner carries the runner's
\* fault flags.
C6_FaultsSticky ==
    [][/\ \A f \in FaultNames :
            (runner.faults[f] /\ ~runner'.faults[f]) => InitStep
       /\ GetResultStep => \A f \in FaultNames : runner.faults[f] => result'.faults[f]]_vars

\* a fault was set during execute and is in the result assembled afterwards
C6_Witness ==
    /\ ReturnedOK("get_result")
    /\ obs.meas_failed = FALSE /\ obs.inf_failed
    /\ runner.faults.verify_fail /\ result.faults.verify_fail

\* C7 as stated: with monitoring on, the result has thermal_drift exactly
\* when the stability predicate fails on the two snapshots.
C7_ThermalDriftIffUnstable ==
    (ReturnedOK("get_result") /\ runner.config.monitor_environment /\ obs.zeroed)
        => (result.faults.thermal_drift <=> ~cb_env_check_stable(result.environment))

\* C11: a get_result that returns a result leaves the runner, and with it
\* the runner's hasher context, as it was and not finalised; and when it
\* directly follows a get_result that returned a result, with verification
\* on, the output hash it returns is the one the earlier call returned.
C11_GetResultFinalisesCopy ==
    [][GetResultStep =>
          /\ runner' = runner
          /\ (runner.config.verify_outputs /\ obs.zeroed)
                 => ~runner'.verify_ctx.finalised
          /\ (ReturnedOK("get_result") /\ runner.config.verify_outputs)
                 => cb_hash_equal(result'.output_hash, result.output_hash)]_vars

\* a second get_result in a row has returned on a runner that hashed the
\* outputs of its measured calls
C11_Witness ==
    /\ ReturnedOK("get_result")
    /\ obs.repeat
    /\ obs.zeroed
    /\ runner.config.verify_outputs
    /\ Len(obs.measured_outputs) > 0
    /\ ~runner.verify_ctx.finalised

\* C13: after a successful init, also of a runner that has run before, all
\* fault flags are clear, the sample count is zero, the runner is not warmed,
\* the hasher is freshly initialised when verification is on, and nothing
\* else in the runner differs from a zero-filled runner but the
\* configuration, the buffer and its capacity, and the initialised flag.
C13_ReinitLeavesNoTrace ==
    ReturnedOK("init")
        => /\ runner.faults = NoFaults
           /\ runner.samples_collected = 0
           /\ ~runner.warmup_complete
           /\ runner.config.verify_outputs
                  => /\ runner.verify_ctx.state = sha256_init
                     /\ runner.verify_ctx.bytes_hashed = 0
                     /\ ~runner.verify_ctx.finalised
           /\ runner = [ZeroRunner EXCEPT
                            !.config = runner.config,
                            !.samples = runner.samples,
                            !.sample_capacity = runner.sample_capacity,
                            !.initialised = TRUE,
                            !.verify_ctx = runner.verify_ctx]
           /\ ~runner.config.verify_outputs => runner.verify_ctx = ZeroCtx

\* init has succeeded on a runner that was warmed by an earlier run
C13_Witness ==
    /\ ReturnedOK("init")
    /\ obs.was_warm
    /\ runner.config.verify_outputs

\* what C14 asks of the arguments of runner_init
InitArgsValid(config, capacity) ==
    /\ 0 < config.measure_iterations
    /\ config.measure_iterations <= 1000000
    /\ config.batch_size > 0
    /\ config.collect_histogram
           => /\ 0 < config.histogram_bins
              /\ config.histogram_bins <= CB_MAX_HISTOGRAM
              /\ config.histogram_max_ns > config.histogram_min_ns
    /\ capacity >= config.measure_iterations

\* C14: runner_init with a non-null buffer returns success exactly when the
\* configuration is valid and the capacity is at least measure_iterations,
\* and the invalid-config error in every other case.
C14_InitSucceedsIffValid ==
    (Answered("init") /\ ret.args[2] # NULL)
        => /\ ret.rc = CB_OK <=> InitArgsValid(ret.args[1], ret.args[3])
           /\ ret.rc # CB_OK => ret.rc = CB_ERR_INVALID_CONFIG

\* runner_init has refused a valid configuration whose buffer is one sample
\* short
C14_Witness ==
    /\ Answered("init")
    /\ ret.rc = CB_ERR_INVALID_CONFIG
    /\ cb_config_validate(ret.args[1]) = CB_OK
    /\ ret.args[3] = ret.args[1].measure_iterations - 1

\* C15 as stated: when the clock read by which runner_init tests the timer
\* fails, runner_init returns the timer_init error and the runner is not
\* initialised.
C15_TimerFailureFailsInit ==
    (Returned("init") /\ obs.clock_failed)
        => (ret.rc = CB_ERR_TIMER_INIT /\ ~runner.initialised)

\* C12 as stated: once get_result has returned a result, no later operation
\* on the runner writes the caller's sample buffer.
C12_BufferNotUsedAfterGetResult ==
    [][(obs.got_result /\ obs.zeroed) => sample_buffer' = sample_buffer]_vars

\* execute has completed since the last initialisation and the runner was
\* not cleaned up since
Executed == obs.executed /\ ~obs.cleaned

C9_Counts ==
    /\ ReturnedOK("warmup")
           => /\ obs.fn_calls = runner.config.warmup_iterations
              /\ obs.meas_calls = 0
    /\ ReturnedOK("execute")
           => /\ obs.fn_calls = (IF obs.was_warm THEN 0 ELSE runner.config.warmup_iterations)
                                    + runner.config.measure_iterations
              /\ obs.meas_calls = runner.config.measure_iterations
              /\ runner.samples_collected = runner.config.measure_iterations

\* C9: a warmup that returns CB_OK has made warmup_iterations calls, and no
\* step of a warmup touches the sample buffer or the sample count; an
\* execute that returns CB_OK has made warmup_iterations +
\* measure_iterations calls on a runner that was not warm and
\* measure_iterations calls on one that was, and has recorded
\* measure_iterations samples.
C9_CallCounts ==
    [][/\ call.op = "warmup"
            => /\ sample_buffer' = sample_buffer
               /\ runner'.samples_collected = runner.samples_collected
       /\ C9_Counts']_vars

\* execute has returned from a runner that it had to warm first
C9_Witness ==
    /\ ReturnedOK("execute") /\ ~obs.was_warm
    /\ runner.config.warmup_iterations = MaxWarmup
    /\ runner.config.measure_iterations = MaxMeasure
    /\ obs.fn_calls = MaxWarmup + MaxMeasure

\* a warmup call fails in this step
WarmupFailure == obs.fail_rc = CB_OK /\ obs'.fail_rc # CB_OK

\* C10: the step in which a warmup call fails is the last of the runner
\* call: it returns the code the inference function returned, to the caller
\* of warmup or of execute, and leaves the sample buffer, the sample count
\* and warmup_complete as they were.
C10_WarmupFailureAborts ==
    [][WarmupFailure
          => /\ call'.op = "idle"
             /\ ret' = [op |-> call.via, rc |-> obs'.fail_rc, accepted |-> TRUE]
             /\ obs'.fn_calls = obs.fn_calls + 1
             /\ sample_buffer' = sample_buffer
             /\ runner'.samples_collected = runner.samples_collected
             /\ runner'.warmup_complete = runner.warmup_complete
             /\ (call.via = "execute" => ~runner'.warmup_complete)]_vars

\* execute has returned the code of a failed warmup call
C10_Witness ==
    /\ Returned("execute") /\ ret.rc = CB_ERR_MODEL_LOAD
    /\ obs.fail_rc = CB_ERR_MODEL_LOAD
    /\ obs.meas_calls = 0 /\ ~runner.warmup_complete

\* this step is one pass of the measurement loop: it stores samples[call.i]
MeasureStep == call.op = "measure" /\ call'.op = "measure" /\ call'.i = call.i + 1

\* the capacity of the buffer in use: that of the buffer the last successful
\* init took, none once the runner was cleaned up
LiveCapacity == IF obs.cleaned THEN 0 ELSE obs.capacity

\* a step stores samples, in the loop or by sorting, only at indices below
\* the capacity in use
SampleWritesInBounds ==
    /\ MeasureStep => call.i < LiveCapacity
    /\ \A i \in 1..MaxMeasure :
           sample_buffer'[i] # sample_buffer[i] => i - 1 < LiveCapacity

BenchConfigs ==
    {c \in ValidConfigs : c.verify_outputs /\ ~c.monitor_environment}
        \cup {[BaseConfig EXCEPT !.batch_size = 0]}

\* the number of runner calls of one cb_run_benchmark
BenchCalls == 5

InitBench ==
    /\ Fresh
    /\ runner = StaleRunner
    /\ limits = [ops |-> 2 * BenchCalls, faults |-> 0,
                 clock |-> 1 + 4 * (MaxWarmup + MaxMeasure)]
    /\ cmp = NoCmp
    /\ LibraryOff
    /\ \E config \in BenchConfigs, output_size \in 0..MaxOutputSize :
        bench = [pc |-> "init", run |-> 1, config |-> config,
                 output_size |-> output_size, rc |-> CB_OK,
                 first |-> [rc |-> CB_OK, result |-> ZeroResult, outputs |-> <<>>]]

\* rc = cb_runner_init(&runner, config, sample_buffer, buffer_capacity);
\* if (rc != CB_OK) return rc;
BenchInit ==
    /\ bench.pc = "init"
    /\ DoRunnerInit(bench.config, "sample_buffer", MaxMeasure, FALSE)
    /\ bench' = [bench EXCEPT !.pc = IF ret'.rc = CB_OK THEN "warmup" ELSE "returned",
                              !.rc = ret'.rc]
    /\ UNCHANGED <<limits, cmp, hasher, statcall, envcall>>

\* rc = cb_runner_warmup(&runner, fn, ..)
BenchWarmup ==
    /\ bench.pc = "warmup"
    /\ DoWarmupBegin("fn", bench.output_size)
    /\ bench' = [bench EXCEPT !.pc = "execute"]
    /\ UNCHANGED <<limits, cmp, hasher, statcall, envcall>>

\* if (rc != CB_OK) { cb_runner_cleanup(&runner); return rc; }
\* rc = cb_runner_execute(&runner, fn, ..)
BenchExecute ==
    /\ bench.pc = "execute"
    /\ call.op = "idle"
    /\ IF ret.rc # CB_OK
       THEN DoCleanup /\ bench' = [bench EXCEPT !.pc = "returned", !.rc = ret.rc]
       ELSE DoExecuteBegin("fn", bench.output_size)
                /\ bench' = [bench EXCEPT !.pc = "get_result"]
    /\ UNCHANGED <<limits, cmp, hasher, statcall, envcall>>

\* if (rc != CB_OK) { cb_runner_cleanup(&runner); return rc; }
\* rc = cb_runner_get_result(&runner, result)
BenchGetResult ==
    /\ bench.pc = "get_result"
    /\ call.op = "idle"
    /\ IF ret.rc # CB_OK
       THEN DoCleanup /\ bench' = [bench EXCEPT !.pc = "returned", !.rc = ret.rc]
       ELSE /\ \E now_unix \in TimeVals :
                 DoGetResult(FALSE, FALSE, NominalReading, FALSE, now_unix)
            /\ bench' = [bench EXCEPT !.pc = "cleanup"]
    /\ UNCHANGED <<limits, cmp, hasher, statcall, envcall>>

\* cb_runner_cleanup(&runner); return rc;
BenchCleanup ==
    /\ bench.pc = "cleanup"
    /\ DoCleanup
    /\ bench' = [bench EXCEPT !.pc = "returned", !.rc = ret.rc]
    /\ UNCHANGED <<limits, cmp, hasher, statcall, envcall>>

\* the caller keeps the result of the first run and runs the benchmark again
BenchAgain ==
    /\ bench.pc = "returned"
    /\ bench.run = 1
    /\ bench' = [bench EXCEPT !.pc = "init", !.run = 2,
                              !.first = [rc |-> bench.rc, result |-> result,
                                         outputs |-> obs.measured_outputs]]
    /\ UNCHANGED <<runner, sample_buffer, output, g_timer, clock, call, ret, result,
                   obs, ops, limits, cmp, hasher, statcall, envcall>>

NextBench ==
    \/ BenchInit
    \/ BenchWarmup
    \/ WarmupIter
    \/ WarmupEnd
    \/ BenchExecute
    \/ MeasureIter
    \/ MeasureEnd
    \/ BenchGetResult
    \/ BenchCleanup
    \/ BenchAgain

SpecBench == InitBench /\ [][NextBench]_vars

\* both runs are complete and the inference function produced the same
\* outputs in both
TwoRunsSameOutputs ==
    /\ bench.pc = "returned" /\ bench.run = 2
    /\ bench.first.rc = CB_OK /\ bench.rc = CB_OK
    /\ bench.first.outputs = obs.measured_outputs

\* what the result hash binds besides the output hash
SameBoundFields(a, b) ==
    /\ a.platform = b.platform
    /\ a.latency.min_ns = b.latency.min_ns
    /\ a.latency.max_ns = b.latency.max_ns
    /\ a.latency.mean_ns = b.latency.mean_ns
    /\ a.latency.p99_ns = b.latency.p99_ns
    /\ a.timestamp_unix = b.timestamp_unix

\* C3 as stated: two complete runs with verification on and the same
\* outputs have the same output hash and the same result hash.
C3_SameOutputsSameHashes ==
    TwoRunsSameOutputs
        => /\ cb_hash_equal(bench.first.result.output_hash, result.output_hash)
           /\ cb_hash_equal(bench.first.result.result_hash, result.result_hash)

\* C3, amended: two complete runs with verification on and the same outputs
\* have the same output hash; they have the same result hash when their
\* minimum, maximum, mean and p99 latencies and their timestamps are the
\* same too.
C3_SameOutputsSameOutputHash ==
    TwoRunsSameOutputs
        => /\ cb_hash_equal(bench.first.result.output_hash, result.output_hash)
           /\ SameBoundFields(bench.first.result, result)
                  => cb_hash_equal(bench.first.result.result_hash, result.result_hash)

\* two complete runs of MaxMeasure measured calls with the same outputs, the
\* same latencies and the same timestamp
C3_Witness ==
    /\ TwoRunsSameOutputs
    /\ Len(obs.measured_outputs) = MaxMeasure
    /\ SameBoundFields(bench.first.result, result)
    /\ bench.first.result.benchmark_end_ns # result.benchmark_end_ns

\* ------------------------------------------------------------------------
\* The streaming hasher used directly (verify.c)
\* ------------------------------------------------------------------------
\* messages fed to the hasher: MaxMsgLen bytes, all equal or counting
HashMessages == {[i \in 1..MaxMsgLen |-> Byte(7)], [i \in 1..MaxMsgLen |-> Byte(i % 5)]}

\* the bytes of the message fed to the context since its last init
Fed == SubSeq(hasher.msg, 1, hasher.n)

\* A caller holds a context and a message. hasher notes the context, the
\* message, how many of its bytes went in since the last init, the last call
\* and its return code, whether that call passed a null data pointer with a
\* size above zero, the last digest, the inits made, the finals made since
\* the last init, and whether since the last init an empty chunk went in, a
\* chunk straddled a block boundary, and whether an update was ever rejected
\* for a finalised context.
InitHash ==
    /\ Fresh
    /\ runner = ZeroRunner
    /\ limits = [ops |-> 0, faults |-> 0, clock |-> MaxClock]
    /\ bench = NoBench
    /\ cmp = NoCmp
    /\ statcall = NoStatCall
    /\ envcall = NoEnvCall
    /\ \E msg \in HashMessages :
        hasher = [pc |-> "on", ctx |-> ZeroCtx, msg |-> msg, n |-> 0, op |-> "none",
                  rc |-> CB_OK, badptr |-> FALSE, digest |-> ZeroHash, inits |-> 0,
                  finals |-> 0, empty |-> FALSE, straddled |-> FALSE,
                  rejected |-> FALSE]

HashFrame == UNCHANGED <<runner, sample_buffer, output, g_timer, clock, call, ret,
                         result, obs, ops, limits, bench, cmp, statcall, envcall>>

\* cb_verify_ctx_init(&ctx); the caller starts over with the message and
\* a cleared digest
HashCtxInit ==
    /\ hasher.pc = "on"
    /\ hasher.inits < MaxInits
    /\ hasher' = [hasher EXCEPT !.ctx = cb_verify_ctx_init, !.n = 0, !.op = "init",
                                !.rc = CB_OK, !.badptr = FALSE, !.inits = @ + 1,
                                !.digest = ZeroHash,
                                !.finals = 0, !.empty = FALSE, !.straddled = FALSE]
    /\ HashFrame

\* cb_verify_ctx_update(&ctx, data, size) with data at the rest of the message,
\* or NULL
HashCtxUpdate ==
    /\ hasher.pc = "on"
    /\ hasher.inits > 0
    /\ \E size \in 0..(MaxMsgLen - hasher.n), null \in BOOLEAN :
        /\ null => size <= 1
        /\ LET data == IF null THEN NullData
                       ELSE SubSeq(hasher.msg, hasher.n + 1, MaxMsgLen)
               r == cb_verify_ctx_update(hasher.ctx, data, size)
               went_in == r[1] = CB_OK /\ ~hasher.ctx.finalised
               buffer_len == Len(hasher.ctx.state.buffer)
           IN  hasher' = [hasher EXCEPT
                   !.ctx = r[2], !.op = "update", !.rc = r[1],
                   !.badptr = null /\ size > 0,
                   !.n = IF went_in THEN @ + size ELSE @,
                   !.empty = @ \/ (went_in /\ size = 0),
                   !.straddled = @ \/ (went_in /\ buffer_len > 0
                                          /\ size > SHA256_BLOCK - buffer_len),
                   !.rejected = @ \/ r[1] = CB_ERR_INVALID_CONFIG]
    /\ HashFrame

\* cb_verify_ctx_final(&ctx, &digest)
HashCtxFinal ==
    /\ hasher.pc = "on"
    /\ hasher.inits > 0
    /\ hasher.finals < MaxFinals
    /\ LET r == cb_verify_ctx_final(hasher.ctx)
       IN  hasher' = [hasher EXCEPT !.ctx = r[1], !.digest = r[2], !.op = "final",
                                    !.rc = CB_OK, !.badptr = FALSE, !.finals = @ + 1]
    /\ HashFrame

NextHash ==
    \/ HashCtxInit
    \/ HashCtxUpdate
    \/ HashCtxFinal

SpecHash == InitHash /\ [][NextHash]_vars

\* this step is an update, a final
HashUpdateStep == hasher'.op = "update"
HashFinalStep == hasher'.op = "final"

\* C16 as stated: an update on a finalised context fails with the
\* invalid-config error and leaves the context unchanged; on a context that
\* was initialised and not finalised since, updates succeed, and the digest of
\* final covers the bytes supplied since that init.
C16_FinalisedRejectsUpdates ==
    [][/\ (HashUpdateStep /\ hasher.ctx.finalised)
              => (hasher'.rc = CB_ERR_INVALID_CONFIG /\ hasher'.ctx = hasher.ctx)
       /\ (HashUpdateStep /\ ~hasher.ctx.finalised /\ ~hasher'.badptr)
              => hasher'.rc = CB_OK
       /\ (HashFinalStep /\ ~hasher.ctx.finalised)
              => cb_hash_equal(hasher'.digest, cb_compute_hash(Fed))]_vars

\* C16, amended: an update with a data pointer that is not null, or with
\* size zero, on a finalised context fails with the invalid-config error and
\* leaves the context unchanged; on a context initialised and not finalised
\* since it succeeds, and the digest of final covers the bytes supplied since
\* that init. An update with a null data pointer and a size above zero fails
\* with the null-pointer error and leaves the context unchanged, finalised or
\* not.
C16_FinalisedRejectsValidUpdates ==
    [][/\ (HashUpdateStep /\ hasher.ctx.finalised /\ ~hasher'.badptr)
              => (hasher'.rc = CB_ERR_INVALID_CONFIG /\ hasher'.ctx = hasher.ctx)
       /\ (HashUpdateStep /\ ~hasher.ctx.finalised /\ ~hasher'.badptr)
              => hasher'.rc = CB_OK
       /\ (HashUpdateStep /\ hasher'.badptr)
              => (hasher'.rc = CB_ERR_NULL_PTR /\ hasher'.ctx = hasher.ctx)
       /\ (HashFinalStep /\ ~hasher.ctx.finalised)
              => cb_hash_equal(hasher'.digest, cb_compute_hash(Fed))]_vars

\* a context that rejected an update while finalised was initialised again,
\* took bytes and was finalised
C16_Witness ==
    /\ hasher.pc = "on"
    /\ hasher.rejected
    /\ hasher.inits = 2
    /\ hasher.op = "final" /\ hasher.finals = 1
    /\ hasher.n > 0 /\ hasher.n < MaxMsgLen

\* C17: init, one update per chunk and final give the digest that the
\* one-shot hash gives for the concatenation of the chunks, whatever the
\* chunk sizes.
C17_StreamingEqualsOneShot ==
    (hasher.pc = "on" /\ hasher.op = "final" /\ hasher.finals = 1)
        => cb_hash_equal(hasher.digest, cb_compute_hash(Fed))

\* more than a block went in, in chunks of which one was empty and one
\* straddled a block boundary, and the context was finalised
C17_Witness ==
    /\ hasher.pc = "on"
    /\ hasher.op = "final" /\ hasher.finals = 1
    /\ hasher.n > SHA256_BLOCK
    /\ hasher.empty /\ hasher.straddled

\* C29: a second final on a context that was not initialised again never
\* yields a digest different from the first one: the second call is
\* rejected or returns the same digest.
C29_SecondFinalSameDigest ==
    [][(HashFinalStep /\ hasher.finals = 1)
           => \/ hasher'.rc # CB_OK
              \/ cb_hash_equal(hasher'.digest, hasher.digest)]_vars

\* ------------------------------------------------------------------------
\* Comparison (report.c)
\* ------------------------------------------------------------------------
\* The comparison works on the real widths: a uint64_t is written as its
\* eight base-256 digits, most significant first, so that the shift by 16
\* and the cast to uint32_t lose exactly the digits the machine loses. The
\* operands offered are below 2^31 and the divisors below 2^23.
RECURSIVE div_digits(_, _, _, _)
\* the quotient digits of the digit string d by a, from digit k on with
\* remainder rem carried in (the 64-bit unsigned division)
div_digits(d, k, rem, a) ==
    IF k > Len(d) THEN <<>>
    ELSE LET cur == rem * 256 + d[k]
         IN  <<cur \div a>> \o div_digits(d, k + 1, cur % a, a)

\* (uint32_t)((b << 16) / a), 0 when a is 0
ratio_q16(b, a) ==
    IF a > 0
    THEN LET wide == [k \in 1..8 |-> IF k <= 4 THEN 0 ELSE (b \div (256 ^ (8 - k))) % 256]
             shifted == SubSeq(wide \o <<0, 0>>, 1 + CB_Q16_SHIFT \div 8, 10)
             q == div_digits(shifted, 1, 0, a)
         IN  ((q[5] * 256 + q[6]) * 256 + q[7]) * 256 + q[8]
    ELSE 0

\* snprintf(dst, CB_MAX_PLATFORM, "%s", platform)
platform_copy(platform) == SubSeq(platform, 1, Min2(Len(platform), CB_MAX_PLATFORM - 1))

\* the performance fields of cb_compare_results, filled in when comparable
compare_performance(c, a, b) ==
    [c EXCEPT
        !.latency_diff_ns = b.latency.p99_ns - a.latency.p99_ns,
        !.latency_ratio_q16 = ratio_q16(b.latency.p99_ns, a.latency.p99_ns),
        !.throughput_diff = b.throughput.inferences_per_sec
                                - a.throughput.inferences_per_sec,
        !.throughput_ratio_q16 = ratio_q16(b.throughput.inferences_per_sec,
                                           a.throughput.inferences_per_sec),
        !.wcet_diff_ns = b.latency.wcet_bound_ns - a.latency.wcet_bound_ns,
        !.wcet_ratio_q16 = ratio_q16(b.latency.wcet_bound_ns, a.latency.wcet_bound_ns)]

\* cb_compare_results(result_a, result_b, comparison): the return code and
\* the comparison it leaves; null says one of the pointers is NULL
cb_compare_results(a, b, comparison, null) ==
    IF null THEN [rc |-> CB_ERR_NULL_PTR, comparison |-> comparison]
    ELSE LET identical == cb_hash_equal(a.output_hash, b.output_hash)
             c0 == [ZeroComparison EXCEPT !.platform_a = platform_copy(a.platform),
                                          !.platform_b = platform_copy(b.platform),
                                          !.outputs_identical = identical,
                                          !.comparable = identical]
         IN  [rc |-> CB_OK,
              comparison |-> IF ~c0.comparable THEN c0 ELSE compare_performance(c0, a, b)]

\* digests offered to the comparison: two that differ from the zero digest in
\* one byte only (the first, the last), and two SHA-256 digests
FirstByteHash == [ZeroHash EXCEPT !.raw[1] = 1]
LastByteHash == [ZeroHash EXCEPT !.raw[CB_HASH_SIZE] = 1]
CompareHashes == {ZeroHash, FirstByteHash, LastByteHash,
                  cb_compute_hash(<<Byte(7)>>), cb_compute_hash(<<Byte(9)>>)}

\* p99 latencies and WCET bounds, throughputs
CompareLatencies == {0, 1, 3, 65536}
CompareThroughputs == {0, 2, 5}

CompareResults ==
    {[ZeroResult EXCEPT !.platform = PlatformName,
                        !.output_hash = h,
                        !.latency.p99_ns = l,
                        !.latency.wcet_bound_ns = 2 * l,
                        !.throughput.inferences_per_sec = t] :
        h \in CompareHashes, l \in CompareLatencies, t \in CompareThroughputs}

\* what the caller's cb_comparison_t may hold before the call
StaleComparison ==
    [ZeroComparison EXCEPT !.outputs_identical = TRUE, !.comparable = TRUE,
                           !.latency_diff_ns = 1, !.latency_ratio_q16 = 1,
                           !.throughput_diff = 1, !.throughput_ratio_q16 = 1,
                           !.wcet_diff_ns = 1, !.wcet_ratio_q16 = 1]

InitCompare ==
    /\ Fresh
    /\ limits = [ops |-> 0, faults |-> 0, clock |-> MaxClock]
    /\ bench = NoBench
    /\ LibraryOff
    /\ \E a \in CompareResults, b \in CompareResults,
          c \in {ZeroComparison, StaleComparison} :
        cmp = [pc |-> "ready", a |-> a, b |-> b, comparison |-> c, rc |-> CB_OK]

Compare ==
    /\ cmp.pc = "ready"
    /\ \E null \in BOOLEAN :
        LET r == cb_compare_results(cmp.a, cmp.b, cmp.comparison, null)
        IN  cmp' = [cmp EXCEPT !.pc = "done", !.comparison = r.comparison, !.rc = r.rc]
    /\ UNCHANGED <<runner, sample_buffer, output, g_timer, clock, call, ret, result,
                   obs, ops, limits, bench, hasher, statcall, envcall>>

NextCompare == Compare

SpecCompare == InitCompare /\ [][NextCompare]_vars

\* the two digests compared differ in some byte
HashesDiffer == \E i \in 1..CB_HASH_SIZE :
                    HashByte(cmp.a.output_hash, i) # HashByte(cmp.b.output_hash, i)

\* C1: when the output hashes of the two results differ in any byte, the
\* comparison says the outputs are not identical and not comparable, and
\* its three differences and three ratios are all zero, whatever the
\* statistics of the two results are.
C1_DifferentHashesNotComparable ==
    (cmp.pc = "done" /\ cmp.rc = CB_OK /\ HashesDiffer)
        => /\ cmp.comparison.outputs_identical = FALSE
           /\ cmp.comparison.comparable = FALSE
           /\ cmp.comparison.latency_diff_ns = 0
           /\ cmp.comparison.latency_ratio_q16 = 0
           /\ cmp.comparison.throughput_diff = 0
           /\ cmp.comparison.throughput_ratio_q16 = 0
           /\ cmp.comparison.wcet_diff_ns = 0
           /\ cmp.comparison.wcet_ratio_q16 = 0

\* two results whose digests differ in the last byte only and whose
\* statistics differ have been compared
C1_Witness ==
    /\ cmp.pc = "done" /\ cmp.rc = CB_OK
    /\ cmp.a.output_hash = ZeroHash /\ cmp.b.output_hash = LastByteHash
    /\ cmp.a.latency.p99_ns = 1 /\ cmp.b.latency.p99_ns = 3
    /\ cmp.a.throughput.inferences_per_sec = 2
    /\ cmp.b.throughput.inferences_per_sec = 5

\* a number below 2^31 as ten base-256 digits, most significant first
Digits(x) == <<0, 0, 0, 0, 0, 0, (x \div 16777216) % 256, (x \div 65536) % 256,
               (x \div 256) % 256, x % 256>>

\* the digits of x * 65536
Times65536(d) == SubSeq(d, 3, 10) \o <<0, 0>>

\* C18: whenever two results are comparable and A.p99 > 0, the stored
\* latency_ratio_q16 is the integer quotient of B.p99 * 65536 by A.p99, for
\* all values of the two latencies; when A.p99 = 0 the ratio is 0.
C18_LatencyRatioIsQuotient ==
    (cmp.pc = "done" /\ cmp.rc = CB_OK /\ cmp.comparison.comparable)
        => IF cmp.a.latency.p99_ns > 0
           THEN Digits(cmp.comparison.latency_ratio_q16)
                    = div_digits(Times65536(Digits(cmp.b.latency.p99_ns)), 1, 0,
                                 cmp.a.latency.p99_ns)
           ELSE cmp.comparison.latency_ratio_q16 = 0

\* ------------------------------------------------------------------------
\* A caller of cb_env_check_stable (platform.c)
\* ------------------------------------------------------------------------
\* CPU frequencies of the two snapshots: none, values around the 5% line
\* (19/20 is exactly 95%), and the half of the uint64_t range, where the
\* products by 100 and by 95 no longer fit the word
EnvFreqs == {0, 18, 19, 20, 40, 2 ^ (U64_BITS - 1)}

\* throttle counts of the end snapshot (the start snapshot has none)
EnvThrottles == {0, 1}

EnvRecords ==
    {cb_env_compute_stats([ZeroSnapshot EXCEPT !.cpu_freq_hz = fs],
                          [ZeroSnapshot EXCEPT !.cpu_freq_hz = fe,
                                               !.throttle_count = t]) :
        fs \in EnvFreqs, fe \in EnvFreqs, t \in EnvThrottles}

InitEnv ==
    /\ Fresh
    /\ runner = ZeroRunner
    /\ limits = [ops |-> 0, faults |-> 0, clock |-> MaxClock]
    /\ bench = NoBench
    /\ cmp = NoCmp
    /\ hasher = NoHasher
    /\ statcall = NoStatCall
    /\ \E stats \in EnvRecords :
        envcall = [pc |-> "ready", stats |-> stats, null |-> FALSE, stable |-> FALSE,
                   inline |-> FALSE]

\* stable = cb_env_check_stable(&stats), or cb_env_check_stable(NULL)
EnvCheckStable ==
    /\ envcall.pc = "ready"
    /\ \E null \in BOOLEAN :
        envcall' = [envcall EXCEPT
                       !.pc = "done", !.null = null,
                       !.stable = IF null THEN FALSE
                                  ELSE cb_env_check_stable(envcall.stats)]
    /\ UNCHANGED <<runner, sample_buffer, output, g_timer, clock, call, ret, result,
                   obs, ops, limits, bench, cmp, hasher, statcall>>

\* inline = cb_env_is_stable(&stats), on the record just checked
EnvIsStable ==
    /\ envcall.pc = "done"
    /\ ~envcall.null
    /\ envcall' = [envcall EXCEPT !.pc = "both",
                                  !.inline = cb_env_is_stable(envcall.stats)]
    /\ UNCHANGED <<runner, sample_buffer, output, g_timer, clock, call, ret, result,
                   obs, ops, limits, bench, cmp, hasher, statcall>>

NextEnv ==
    \/ EnvCheckStable
    \/ EnvIsStable

SpecEnv == InitEnv /\ [][NextEnv]_vars

\* C19: the stability check on an environmental-stats record returns stable
\* exactly when end_freq * 100 >= start_freq * 95 and there were no
\* throttle events, except that a record with start_freq = 0 is always
\* reported stable.
C19_StableIffWithinFivePercent ==
    (envcall.pc = "done" /\ ~envcall.null)
        => (envcall.stable
                <=> \/ envcall.stats.start.cpu_freq_hz = 0
                    \/ /\ envcall.stats.end.cpu_freq_hz * 100
                            >= envcall.stats.start.cpu_freq_hz * 95
                       /\ envcall.stats.total_throttle_events = 0)

\* C30: the inline predicate cb_env_is_stable and the function
\* cb_env_check_stable return the same verdict for every environmental-stats
\* record, whatever its start_freq, end_freq and total_throttle_events.
C30_InlineAgreesWithCheckStable ==
    envcall.pc = "both" => envcall.inline = envcall.stable

\* ------------------------------------------------------------------------
\* A caller of cb_compute_stats (metrics.c)
\* ------------------------------------------------------------------------
\* latencies offered: small ones and the two largest of the uint64_t range
StatValues == {0, 1, 5, UINT64_MAX - 1, UINT64_MAX}

\* the longest sample array offered
MaxSamples == 3

StatArrays == UNION {[1..n -> StatValues] : n \in 1..MaxSamples}

InitStats ==
    /\ Fresh
    /\ runner = ZeroRunner
    /\ limits = [ops |-> 0, faults |-> 0, clock |-> MaxClock]
    /\ bench = NoBench
    /\ cmp = NoCmp
    /\ hasher = NoHasher
    /\ envcall = NoEnvCall
    /\ \E samples \in StatArrays :
        statcall = [pc |-> "ready", given |-> samples, count |-> 0, rc |-> CB_OK,
                    samples |-> samples, stats |-> ZeroStats, faults |-> NoFaults]

\* rc = cb_compute_stats(samples, count, &stats, &faults) on the first count
\* entries of the array, faults cleared by the caller
ComputeStats ==
    /\ statcall.pc = "ready"
    /\ \E count \in 0..Len(statcall.given) :
        LET r == cb_compute_stats(statcall.given, count, NoFaults)
        IN  statcall' = [statcall EXCEPT !.pc = "done", !.count = count, !.rc = r.rc,
                                         !.samples = r.samples, !.stats = r.stats,
                                         !.faults = r.faults]
    /\ UNCHANGED <<runner, sample_buffer, output, g_timer, clock, call, ret, result,
                   obs, ops, limits, bench, cmp, hasher, envcall>>

NextStats == ComputeStats

SpecStats == InitStats /\ [][NextStats]_vars

\* the largest of the samples handed to cb_compute_stats
GivenMax == CHOOSE m \in {statcall.given[i] : i \in 1..statcall.count} :
                \A i \in 1..statcall.count : statcall.given[i] <= m

\* C20: for every non-empty sample array cb_compute_stats sets wcet_observed
\* to the maximum and wcet_bound to max + 6 * stddev; if that sum exceeds
\* the 64-bit range it sets the overflow fault and wcet_bound to the maximum
\* instead; wcet_bound >= wcet_observed in both cases.
C20_WcetBoundCoversObserved ==
    (statcall.pc = "done" /\ statcall.count > 0)
        => /\ statcall.stats.wcet_observed_ns = GivenMax
           /\ IF GivenMax + 6 * statcall.stats.stddev_ns <= UINT64_MAX
              THEN statcall.stats.wcet_bound_ns
                       = GivenMax + 6 * statcall.stats.stddev_ns
              ELSE /\ statcall.stats.wcet_bound_ns = GivenMax
                   /\ statcall.faults.overflow
           /\ statcall.stats.wcet_bound_ns >= statcall.stats.wcet_observed_ns

\* two samples whose sum fits the word but whose maximum plus six standard
\* deviations does not
C20_Witness ==
    /\ statcall.pc = "done" /\ statcall.count = 2 /\ statcall.rc = CB_OK
    /\ statcall.stats.stddev_ns > 0
    /\ GivenMax + 6 * statcall.stats.stddev_ns > UINT64_MAX
    /\ statcall.faults.overflow

\* C21: for every sample array with at least one element the statistics of
\* cb_compute_stats satisfy min <= median <= max, min <= mean <= max and
\* median <= p95 <= p99 <= max.
C21_StatsOrdered ==
    (statcall.pc = "done" /\ statcall.count > 0)
        => /\ statcall.stats.min_ns <= statcall.stats.median_ns
           /\ statcall.stats.median_ns <= statcall.stats.max_ns
           /\ statcall.stats.min_ns <= statcall.stats.mean_ns
           /\ statcall.stats.mean_ns <= statcall.stats.max_ns
           /\ statcall.stats.median_ns <= statcall.stats.p95_ns
           /\ statcall.stats.p95_ns <= statcall.stats.p99_ns
           /\ statcall.stats.p99_ns <= statcall.stats.max_ns

\* ------------------------------------------------------------------------
\* uint64_t at its full width
\* ------------------------------------------------------------------------
\* Where the program's constants do not fit the U64_BITS-bit word (the
\* 6745 and 35000 of the outlier test), a uint64_t is kept as its eight base-256 digits, most
\* significant first, and the C operators are the schoolbook ones on
\* digits: sums, differences and products lose the carry out of the top
\* digit as the machine does.  Every result is written out as a tuple
\* (SubSeq), so that a digit is computed once.
\* the uint64_t of a number below 2^31
Wide(x) == <<0, 0, 0, 0, (x \div 16777216) % 256, (x \div 65536) % 256,
             (x \div 256) % 256, x % 256>>

\* a < b, a and b of the same length
WideLess(a, b) == \E k \in 1..Len(a) : /\ a[k] < b[k]
                                       /\ \A j \in 1..(k - 1) : a[j] = b[j]

RECURSIVE WideCarry(_, _, _)
\* the carry into digit k - 1 of a + b
WideCarry(a, b, k) ==
    IF k > Len(a) THEN 0 ELSE (a[k] + b[k] + WideCarry(a, b, k + 1)) \div 256

\* a + b
WideAdd(a, b) ==
    SubSeq([k \in 1..Len(a) |-> (a[k] + b[k] + WideCarry(a, b, k + 1)) % 256],
           1, Len(a))

RECURSIVE WideBorrow(_, _, _)
\* the borrow out of digit k of a - b
WideBorrow(a, b, k) ==
    IF k > Len(a) THEN 0
    ELSE IF a[k] - b[k] - WideBorrow(a, b, k + 1) < 0 THEN 1 ELSE 0

\* a - b
WideSub(a, b) ==
    SubSeq([k \in 1..Len(a) |-> (256 + a[k] - b[k] - WideBorrow(a, b, k + 1)) % 256],
           1, Len(a))

RECURSIVE WideMulCarry(_, _, _)
\* the carry into digit k - 1 of a * m, m below 2^22
WideMulCarry(a, m, k) ==
    IF k > Len(a) THEN 0 ELSE (a[k] * m + WideMulCarry(a, m, k + 1)) \div 256

\* a * m
WideMul(a, m) ==
    SubSeq([k \in 1..Len(a) |-> (a[k] * m + WideMulCarry(a, m, k + 1)) % 256],
           1, Len(a))

\* a / m, m below 2^22
WideDiv(a, m) == div_digits(a, 1, 0, m)

\* insertion_sort_u64 on full-width entries
RECURSIVE wide_insert_key(_, _, _)
wide_insert_key(arr, j, key) ==
    IF j > 0 /\ WideLess(key, arr[j])
    THEN wide_insert_key([arr EXCEPT ![j + 1] = arr[j]], j - 1, key)
    ELSE [arr EXCEPT ![j + 1] = key]

RECURSIVE wide_insertion_loop(_, _, _)
wide_insertion_loop(arr, i, count) ==
    IF i < count
    THEN wide_insertion_loop(wide_insert_key(arr, i, arr[i + 1]), i + 1, count)
    ELSE arr

\* cb_sort_u64 for count <= SORT_THRESHOLD
wide_sort_u64(arr, count) ==
    IF count <= 1 THEN arr ELSE wide_insertion_loop(arr, 1, count)

\* cb_percentile on full-width entries
wide_percentile(sorted_samples, count, percentile) ==
    IF count = 0 THEN Wide(0)
    ELSE IF count = 1 THEN sorted_samples[1]
    ELSE LET p == IF percentile > 100 THEN 100 ELSE percentile
             rank_scaled == p * (count - 1)
             rank == rank_scaled \div 100
             frac == rank_scaled % 100
             lower == sorted_samples[rank + 1]
             upper == IF rank + 1 < count THEN sorted_samples[rank + 2] ELSE lower
         IN  IF ~WideLess(upper, lower)
             THEN WideAdd(lower, WideDiv(WideMul(WideSub(upper, lower), frac), 100))
             ELSE lower

\* |x - median| as the code takes it
wide_deviation(x, median) ==
    IF ~WideLess(x, median) THEN WideSub(x, median) ELSE WideSub(median, x)

\* modified_z_scaled = (MAD_SCALE_FACTOR * deviation) / mad
\*     > OUTLIER_THRESH_SCALED.
\* For the unsigned division q = p / mad, q > T is p >= (T + 1) * mad; the
\* right-hand product is taken with three more digits, so it is exact.
outlier_test(deviation, mad) ==
    LET product == WideMul(deviation, MAD_SCALE_FACTOR)
    IN  ~WideLess(<<0, 0, 0>> \o product,
                  WideMul(<<0, 0, 0>> \o mad, OUTLIER_THRESH_SCALED + 1))

\* median = cb_percentile(sorted_copy, count, 50)
outlier_median(samples, count) ==
    wide_percentile(wide_sort_u64(SubSeq(samples, 1, count), count), count, 50)

\* mad = cb_percentile(deviations, count, 50), deviations sorted
outlier_mad(samples, count, median) ==
    wide_percentile(
        wide_sort_u64(SubSeq([i \in 1..count |-> wide_deviation(samples[i], median)],
                             1, count), count),
        count, 50)

\* cb_detect_outliers(samples, count, outlier_flags, outlier_count), count
\* at most SORT_THRESHOLD: the return code, the flags and the count it
\* leaves; flags and n are what the caller's outputs held before
cb_detect_outliers(samples, count, flags, n) ==
    IF count = 0 THEN [rc |-> CB_OK, outlier_flags |-> flags, outlier_count |-> 0]
    ELSE IF count > CB_MAX_SAMPLES
    THEN [rc |-> CB_ERR_OUT_OF_MEMORY, outlier_flags |-> flags, outlier_count |-> n]
    ELSE LET median == outlier_median(samples, count)
             mad == outlier_mad(samples, count, median)
             flagged == SubSeq([i \in 1..count |->
                                   IF mad = Wide(0) THEN FALSE
                                   ELSE outlier_test(wide_deviation(samples[i], median),
                                                     mad)], 1, count)
         IN  [rc |-> CB_OK,
              outlier_flags |-> flagged \o SubSeq(flags, count + 1, Len(flags)),
              outlier_count |-> Cardinality({i \in 1..count : flagged[i]})]

\* ------------------------------------------------------------------------
\* A caller of cb_detect_outliers (metrics.c)
\* ------------------------------------------------------------------------
\* latencies offered: 0, 1, 2, 100 ns and 2734876808555902 ns, the first
\* whose distance from 1 times 6745 no longer fits 64 bits
OutlierValues == {Wide(0), Wide(1), Wide(2), Wide(100),
                  <<0, 9, 183, 91, 32, 173, 173, 126>>}

\* the longest sample array offered to cb_detect_outliers
MaxOutlierSamples == 4

OutlierArrays == UNION {[1..n -> OutlierValues] : n \in 1..MaxOutlierSamples}

InitOutliers ==
    /\ Fresh
    /\ runner = ZeroRunner
    /\ limits = [ops |-> 0, faults |-> 0, clock |-> MaxClock]
    /\ bench = NoBench
    /\ cmp = NoCmp
    /\ hasher = NoHasher
    /\ envcall = NoEnvCall
    /\ \E samples \in OutlierArrays :
        statcall = [pc |-> "ready", samples |-> samples, count |-> 0, rc |-> CB_OK,
                    outlier_flags |-> [i \in 1..Len(samples) |-> TRUE],
                    outlier_count |-> Len(samples)]

\* rc = cb_detect_outliers(samples, count, outlier_flags, &outlier_count)
\* with outputs that still hold the values of an earlier use
DetectOutliers ==
    /\ statcall.pc = "ready"
    /\ \E count \in 0..Len(statcall.samples) :
        LET r == cb_detect_outliers(statcall.samples, count, statcall.outlier_flags,
                                    statcall.outlier_count)
        IN  statcall' = [statcall EXCEPT !.pc = "done", !.count = count, !.rc = r.rc,
                                         !.outlier_flags = r.outlier_flags,
                                         !.outlier_count = r.outlier_count]
    /\ UNCHANGED <<runner, sample_buffer, output, g_timer, clock, call, ret, result,
                   obs, ops, limits, bench, cmp, hasher, envcall>>

NextOutliers == DetectOutliers

SpecOutliers == InitOutliers /\ [][NextOutliers]_vars

\* (6745 * |x - median|) / MAD > 35000 over the integers: the quotient
\* exceeds 35000 exactly when 6745 * |x - median| >= 35001 * MAD
ScoreAboveThreshold(x, median, mad) ==
    ~WideLess(WideMul(<<0, 0, 0>> \o wide_deviation(x, median), 6745),
              WideMul(<<0, 0, 0>> \o mad, 35001))

\* C22: outlier detection flags nothing when MAD = 0; otherwise sample i is
\* flagged if and only if (6745 * |x_i - median|) / MAD > 35000 in integer
\* arithmetic, and the reported outlier count is the number of flagged
\* samples.
C22_FlaggedIffScoreAboveThreshold ==
    (statcall.pc = "done" /\ statcall.count > 0)
        => /\ LET median == outlier_median(statcall.samples, statcall.count)
                  mad == outlier_mad(statcall.samples, statcall.count, median)
              IN  \A i \in 1..statcall.count :
                    statcall.outlier_flags[i]
                        <=> /\ mad # Wide(0)
                            /\ ScoreAboveThreshold(statcall.samples[i], median, mad)
           /\ statcall.outlier_count
                  = Cardinality({i \in 1..statcall.count : statcall.outlier_flags[i]})

\* ------------------------------------------------------------------------
\* Histogram (metrics.c)
\* ------------------------------------------------------------------------
\* cb_histogram_init(histogram, bins, num_bins, min_ns, max_ns): the return
\* code and the histogram it leaves (bins is the caller's array, of at least
\* num_bins entries)
cb_histogram_init(histogram, bins, num_bins, min_ns, max_ns) ==
    IF num_bins = 0 \/ min_ns >= max_ns
    THEN [rc |-> CB_ERR_INVALID_CONFIG, histogram |-> histogram]
    ELSE LET width == (max_ns - min_ns) \div num_bins
             bin_width == IF width = 0 THEN 1 ELSE width
             filled == [i \in 1..Len(bins) |->
                           IF i <= num_bins
                           THEN [min_ns |-> u64(min_ns + (i - 1) * bin_width),
                                 max_ns |-> IF i = num_bins THEN max_ns
                                            ELSE u64(min_ns + i * bin_width),
                                 count |-> 0]
                           ELSE bins[i]]
         IN  [rc |-> CB_OK,
              histogram |-> [range_min_ns |-> min_ns, range_max_ns |-> max_ns,
                             bin_width_ns |-> bin_width, num_bins |-> num_bins,
                             overflow_count |-> 0, underflow_count |-> 0,
                             bins |-> filled]]

\* the loop body of cb_histogram_build with the sample dropped when its bin
\* index is past the last bin
histogram_add_unclamped(h, sample) ==
    IF sample < h.range_min_ns THEN [h EXCEPT !.underflow_count = @ + 1]
    ELSE IF sample >= h.range_max_ns THEN [h EXCEPT !.overflow_count = @ + 1]
    ELSE LET bin_idx == (sample - h.range_min_ns) \div h.bin_width_ns
         IN  IF bin_idx >= h.num_bins THEN h
             ELSE [h EXCEPT !.bins[bin_idx + 1].count = @ + 1]

\* the loop body of cb_histogram_build: one sample counted (the word is
\* narrower than 32 bits, so the cast of the bin index to uint32_t keeps it)
histogram_add(h, sample) ==
    IF sample < h.range_min_ns THEN [h EXCEPT !.underflow_count = @ + 1]
    ELSE IF sample >= h.range_max_ns THEN [h EXCEPT !.overflow_count = @ + 1]
    ELSE LET idx == (sample - h.range_min_ns) \div h.bin_width_ns
             bin_idx == IF idx >= h.num_bins THEN h.num_bins - 1 ELSE idx
         IN  [h EXCEPT !.bins[bin_idx + 1].count = @ + 1]

RECURSIVE histogram_loop(_, _, _, _)
histogram_loop(h, samples, i, count) ==
    IF i < count
    THEN histogram_loop(histogram_add(h, samples[i + 1]), samples, i + 1, count)
    ELSE h

\* cb_histogram_build(samples, count, histogram)
cb_histogram_build(samples, count, histogram) ==
    LET reset == [histogram EXCEPT
                     !.overflow_count = 0, !.underflow_count = 0,
                     !.bins = [i \in 1..Len(@) |->
                                  IF i <= histogram.num_bins
                                  THEN [@[i] EXCEPT !.count = 0] ELSE @[i]]]
    IN  [rc |-> CB_OK, histogram |-> histogram_loop(reset, samples, 0, count)]

\* ------------------------------------------------------------------------
\* A caller of cb_histogram_init and cb_histogram_build
\* ------------------------------------------------------------------------
\* bins in the caller's array
MaxBins == 4

\* bin counts asked for
HistogramBins == {0, 2, MaxBins}

\* ranges <<min_ns, max_ns>>: an empty one, one narrower than MaxBins, one
\* that the bin count does not divide, the whole word
HistogramRanges == {<<1, 1>>, <<1, 3>>, <<1, 6>>, <<0, UINT64_MAX>>}

\* the caller's cb_histogram_t and bin array before cb_histogram_init
StaleBin == [min_ns |-> 1, max_ns |-> 1, count |-> 1]
StaleHistogram ==
    [range_min_ns |-> 0, range_max_ns |-> 0, bin_width_ns |-> 0, num_bins |-> 0,
     overflow_count |-> 1, underflow_count |-> 1, bins |-> [i \in 1..MaxBins |-> StaleBin]]

InitHistogram ==
    /\ Fresh
    /\ runner = ZeroRunner
    /\ limits = [ops |-> 0, faults |-> 0, clock |-> MaxClock]
    /\ bench = NoBench
    /\ cmp = NoCmp
    /\ hasher = NoHasher
    /\ envcall = NoEnvCall
    /\ \E samples \in StatArrays, range \in HistogramRanges, num_bins \in HistogramBins :
        statcall = [pc |-> "declared", samples |-> samples, range |-> range,
                    num_bins |-> num_bins, count |-> 0, rc |-> CB_OK,
                    histogram |-> StaleHistogram, builds |-> 0]

HistogramFrame == UNCHANGED <<runner, sample_buffer, output, g_timer, clock, call, ret,
                              result, obs, ops, limits, bench, cmp, hasher, envcall>>

\* rc = cb_histogram_init(&histogram, bins, num_bins, min_ns, max_ns)
HistogramInit ==
    /\ statcall.pc = "declared"
    /\ LET r == cb_histogram_init(statcall.histogram, statcall.histogram.bins,
                                  statcall.num_bins, statcall.range[1],
                                  statcall.range[2])
       IN  statcall' = [statcall EXCEPT
                           !.pc = IF r.rc = CB_OK THEN "valid" ELSE "invalid",
                           !.rc = r.rc, !.histogram = r.histogram]
    /\ HistogramFrame

\* the builds a caller makes on one histogram
MaxBuilds == 2

\* rc = cb_histogram_build(samples, count, &histogram) on a histogram that
\* cb_histogram_init accepted; a later build counts afresh
HistogramBuild ==
    /\ statcall.pc \in {"valid", "built"}
    /\ statcall.builds < MaxBuilds
    /\ \E count \in 0..Len(statcall.samples) :
        LET r == cb_histogram_build(statcall.samples, count, statcall.histogram)
        IN  statcall' = [statcall EXCEPT !.pc = "built", !.count = count, !.rc = r.rc,
                                         !.histogram = r.histogram,
                                         !.builds = @ + 1]
    /\ HistogramFrame

NextHistogram == HistogramInit \/ HistogramBuild

SpecHistogram == InitHistogram /\ [][NextHistogram]_vars

RECURSIVE BinTotal(_, _)
\* the sum of the counts of the first n bins
BinTotal(bins, n) == IF n = 0 THEN 0 ELSE bins[n].count + BinTotal(bins, n - 1)

\* C23: after a histogram build over a sample array, for any valid
\* histogram (any range and bin count, ranges narrower than the bin count
\* included), the bin counts, the underflow count and the overflow count
\* add up to the number of samples.
C23_HistogramConservation ==
    statcall.pc = "built"
        => BinTotal(statcall.histogram.bins, statcall.histogram.num_bins)
               + statcall.histogram.underflow_count
               + statcall.histogram.overflow_count = statcall.count

\* a second build over three samples, on a range narrower than the bin
\* count, with a sample below the range, one inside and one above
C23_Witness ==
    /\ statcall.pc = "built" /\ statcall.builds = 2 /\ statcall.count = 3
    /\ statcall.histogram.range_max_ns - statcall.histogram.range_min_ns
           < statcall.histogram.num_bins
    /\ statcall.histogram.underflow_count = 1
    /\ statcall.histogram.overflow_count = 1
    /\ BinTotal(statcall.histogram.bins, statcall.histogram.num_bins) = 1

\* ------------------------------------------------------------------------
\* A caller of cb_isqrt64 (metrics.c)
\* ------------------------------------------------------------------------
InitIsqrt ==
    /\ Fresh
    /\ runner = ZeroRunner
    /\ limits = [ops |-> 0, faults |-> 0, clock |-> MaxClock]
    /\ bench = NoBench
    /\ cmp = NoCmp
    /\ hasher = NoHasher
    /\ envcall = NoEnvCall
    /\ \E n \in 0..UINT64_MAX : statcall = [pc |-> "ready", n |-> n, r |-> 0]

\* r = cb_isqrt64(n)
Isqrt ==
    /\ statcall.pc = "ready"
    /\ statcall' = [statcall EXCEPT !.pc = "done", !.r = cb_isqrt64(statcall.n)]
    /\ UNCHANGED <<runner, sample_buffer, output, g_timer, clock, call, ret, result,
                   obs, ops, limits, bench, cmp, hasher, envcall>>

NextIsqrt == Isqrt

SpecIsqrt == InitIsqrt /\ [][NextIsqrt]_vars

RECURSIVE IsqrtExact(_, _, _, _)
\* the binary search of cb_isqrt64 over the integers: its result, the
\* number of iterations, and whether every intermediate value (hi - lo + 1,
\* the midpoint, mid - 1) stayed within the word
IsqrtExact(lo, hi, n, steps) ==
    IF lo < hi
    THEN LET span == hi - lo + 1
             mid == lo + span \div 2
             next == IF mid <= n \div mid
                     THEN IsqrtExact(mid, hi, n, steps + 1)
                     ELSE IsqrtExact(lo, mid - 1, n, steps + 1)
         IN  [next EXCEPT !.fits = @ /\ span \in 0..UINT64_MAX /\ mid \in 1..UINT64_MAX]
    ELSE [r |-> lo, steps |-> steps, fits |-> TRUE]

\* C24: for every unsigned 64-bit n, isqrt(n) terminates and returns r with
\* r * r <= n < (r + 1) * (r + 1), without any intermediate overflow (the
\* search ends within one iteration per bit of the word, and computed in
\* the word it gives what it gives over the integers).
C24_IsqrtIsFloorRoot ==
    statcall.pc = "done"
        => /\ statcall.r * statcall.r <= statcall.n
           /\ statcall.n < (statcall.r + 1) * (statcall.r + 1)
           /\ statcall.n > 0
                  => LET exact == IsqrtExact(1, statcall.n, statcall.n, 0)
                     IN  /\ exact.fits
                         /\ exact.r = statcall.r
                         /\ exact.steps <= U64_BITS

\* the root of the largest value of the word has been taken
C24_Witness ==
    /\ statcall.pc = "done" /\ statcall.n = UINT64_MAX
    /\ statcall.r > 1 /\ statcall.r * statcall.r <= UINT64_MAX

\* ------------------------------------------------------------------------
\* A caller of cb_compute_result_hash (verify.c)
\* ------------------------------------------------------------------------
\* platform names: a short one, two of 31 characters that differ in the
\* last one, and two of 32 characters that differ in the last one
Name30 == [k \in 1..30 |-> 97]
BindingPlatforms == {<<120>>, Name30 \o <<97>>, Name30 \o <<98>>,
                     Name30 \o <<97, 97>>, Name30 \o <<97, 98>>}

BindingBase == [output_hash |-> ZeroHash, platform |-> <<120>>, config_hash |-> 0,
                stats |-> ZeroStats, timestamp_unix |-> 0]

\* the arguments offered: the base ones and those that differ from them in
\* one field, or in two statistics at once
BindingInputs ==
    {BindingBase}
    \cup {[BindingBase EXCEPT !.output_hash = h] : h \in {FirstByteHash, LastByteHash}}
    \cup {[BindingBase EXCEPT !.platform = n] : n \in BindingPlatforms}
    \cup {[BindingBase EXCEPT !.config_hash = v] : v \in {1, 256}}
    \cup {[BindingBase EXCEPT !.timestamp_unix = v] : v \in {1, 256}}
    \cup {[BindingBase EXCEPT !.stats.min_ns = a, !.stats.max_ns = b,
                              !.stats.mean_ns = c, !.stats.p99_ns = d] :
             a \in {0, 1}, b \in {0, 1}, c \in {0, 1}, d \in {0, 1}}

InitBinding ==
    /\ Fresh
    /\ runner = ZeroRunner
    /\ limits = [ops |-> 0, faults |-> 0, clock |-> MaxClock]
    /\ bench = NoBench
    /\ cmp = NoCmp
    /\ statcall = NoStatCall
    /\ envcall = NoEnvCall
    /\ \E a \in BindingInputs, b \in BindingInputs :
        hasher = [pc |-> "ready", a |-> a, b |-> b,
                  hash_a |-> ZeroHash, hash_b |-> ZeroHash]

\* cb_compute_result_hash(...a..., &hash_a)
BindFirst ==
    /\ hasher.pc = "ready"
    /\ hasher' = [hasher EXCEPT
                     !.pc = "first",
                     !.hash_a = cb_compute_result_hash(
                                    hasher.a.output_hash, hasher.a.platform,
                                    hasher.a.config_hash, hasher.a.stats,
                                    hasher.a.timestamp_unix)]
    /\ HashFrame

\* cb_compute_result_hash(...b..., &hash_b)
BindSecond ==
    /\ hasher.pc = "first"
    /\ hasher' = [hasher EXCEPT
                     !.pc = "both",
                     !.hash_b = cb_compute_result_hash(
                                    hasher.b.output_hash, hasher.b.platform,
                                    hasher.b.config_hash, hasher.b.stats,
                                    hasher.b.timestamp_unix)]
    /\ HashFrame

NextBinding == BindFirst \/ BindSecond

SpecBinding == InitBinding /\ [][NextBinding]_vars

RECURSIVE Flatten(_)
\* the chunks fed to the hasher, end to end
Flatten(chunks) == IF chunks = <<>> THEN <<>> ELSE Head(chunks) \o Flatten(Tail(chunks))

\* the byte sequence hashed for the arguments x
BindingBytes(x) ==
    Flatten(BindingChunks(x.output_hash, x.platform, x.config_hash, x.stats,
                          x.timestamp_unix))

\* the eight fields of the claim
BoundFields(x) == <<x.output_hash, x.platform, x.config_hash, x.stats.min_ns,
                    x.stats.max_ns, x.stats.mean_ns, x.stats.p99_ns, x.timestamp_unix>>

\* the same, the platform name cut after its 31st character
BoundFields31(x) ==
    BoundFields([x EXCEPT !.platform = SubSeq(@, 1, IF Len(@) < 31 THEN Len(@) ELSE 31)])

\* C25 as stated: the bytes hashed are determined by (output_hash, platform,
\* config_hash, min_ns, max_ns, mean_ns, p99_ns, timestamp_unix); identical
\* inputs give identical bytes, and inputs that differ in one of these
\* fields give different bytes and different digests.
C25_DifferentInputsDifferentDigests ==
    hasher.pc = "both"
        => /\ BoundFields(hasher.a) = BoundFields(hasher.b)
                  => /\ BindingBytes(hasher.a) = BindingBytes(hasher.b)
                     /\ hasher.hash_a = hasher.hash_b
           /\ BoundFields(hasher.a) # BoundFields(hasher.b)
                  => /\ BindingBytes(hasher.a) # BindingBytes(hasher.b)
                     /\ hasher.hash_a # hasher.hash_b

\* C25 amended: the same with the platform name taken up to its 31st
\* character; names that differ only after it give the same bytes and the
\* same digest.
C25_DigestBindsFieldsUpTo31Chars ==
    hasher.pc = "both"
        => /\ BoundFields31(hasher.a) = BoundFields31(hasher.b)
                  => /\ BindingBytes(hasher.a) = BindingBytes(hasher.b)
                     /\ hasher.hash_a = hasher.hash_b
           /\ BoundFields31(hasher.a) # BoundFields31(hasher.b)
                  => /\ BindingBytes(hasher.a) # BindingBytes(hasher.b)
                     /\ hasher.hash_a # hasher.hash_b

\* two bindings whose platform names have 31 characters and differ in the
\* last one only
C25_Witness ==
    /\ hasher.pc = "both"
    /\ Len(hasher.a.platform) = 31 /\ Len(hasher.b.platform) = 31
    /\ hasher.a.platform # hasher.b.platform
    /\ hasher.hash_a # hasher.hash_b

\* ------------------------------------------------------------------------
\* A caller that asks for the result twice
\* ------------------------------------------------------------------------
\* measured iterations of the run whose result is asked for twice
RepeatSamples == 3

InitRepeat ==
    /\ runner = ZeroRunner
    /\ sample_buffer = [i \in 1..RepeatSamples |-> 0]
    /\ output = [i \in 1..MaxOutputSize |-> Byte(0)]
    /\ g_timer = ZeroTimer
    /\ clock = 1
    /\ call = Idle
    /\ ret = [op |-> "none", rc |-> CB_OK, accepted |-> TRUE]
    /\ result = ZeroResult
    /\ obs = [Obs0 EXCEPT !.zeroed = TRUE]
    /\ ops = 0
    /\ limits = [ops |-> 4, faults |-> 0,
                 clock |-> 1 + 2 * (MaxWarmup + RepeatSamples)]
    /\ cmp = NoCmp
    /\ LibraryOff
    /\ \E verify \in BOOLEAN, output_size \in 0..MaxOutputSize :
        bench = [pc |-> "init",
                 config |-> [BaseConfig EXCEPT !.warmup_iterations = MaxWarmup,
                                               !.measure_iterations = RepeatSamples,
                                               !.verify_outputs = verify],
                 output_size |-> output_size,
                 first |-> [rc |-> CB_OK, result |-> ZeroResult]]

\* cb_runner_init(&runner, &config, sample_buffer, RepeatSamples)
RepeatInit ==
    /\ bench.pc = "init"
    /\ DoRunnerInit(bench.config, "sample_buffer", RepeatSamples, FALSE)
    /\ bench' = [bench EXCEPT !.pc = "execute"]
    /\ UNCHANGED <<limits, cmp, hasher, statcall, envcall>>

\* cb_runner_execute(&runner, fn, ..)
RepeatExecute ==
    /\ bench.pc = "execute"
    /\ DoExecuteBegin("fn", bench.output_size)
    /\ bench' = [bench EXCEPT !.pc = "first"]
    /\ UNCHANGED <<limits, cmp, hasher, statcall, envcall>>

\* cb_runner_get_result(&runner, &first)
RepeatFirstResult ==
    /\ bench.pc = "first"
    /\ call.op = "idle"
    /\ \E now_unix \in TimeVals :
        DoGetResult(FALSE, FALSE, NominalReading, FALSE, now_unix)
    /\ bench' = [bench EXCEPT !.pc = "second"]
    /\ UNCHANGED <<limits, cmp, hasher, statcall, envcall>>

\* cb_runner_get_result(&runner, &second), nothing else in between; the
\* caller keeps the first result
RepeatSecondResult ==
    /\ bench.pc = "second"
    /\ \E now_unix \in TimeVals :
        DoGetResult(FALSE, FALSE, NominalReading, FALSE, now_unix)
    /\ bench' = [bench EXCEPT !.pc = "done",
                              !.first = [rc |-> ret.rc, result |-> result]]
    /\ UNCHANGED <<limits, cmp, hasher, statcall, envcall>>

NextRepeat ==
    \/ RepeatInit
    \/ RepeatExecute
    \/ WarmupIter
    \/ WarmupEnd
    \/ MeasureIter
    \/ MeasureEnd
    \/ RepeatFirstResult
    \/ RepeatSecondResult

SpecRepeat == InitRepeat /\ [][NextRepeat]_vars

\* the statistics the claim lists
ListedStatistics(latency) ==
    <<latency.min_ns, latency.max_ns, latency.mean_ns, latency.median_ns,
      latency.p95_ns, latency.p99_ns, latency.variance_ns2, latency.stddev_ns,
      latency.wcet_bound_ns, latency.outlier_count>>

\* C26: two calls of get_result in succession on the same executed runner,
\* with nothing in between, return the same latency statistics (min, max,
\* mean, median, p95, p99, variance, stddev, wcet_bound, outlier_count) and
\* the same throughput.
C26_RepeatedGetResultSameStatistics ==
    (bench.pc = "done" /\ bench.first.rc = CB_OK /\ ret.rc = CB_OK)
        => /\ ListedStatistics(result.latency)
                  = ListedStatistics(bench.first.result.latency)
           /\ result.throughput = bench.first.result.throughput

(***************************************************************************)
(* Two benchmark runs followed by the comparison of their results: the     *)
(* caller runs cb_run_benchmark twice with one configuration, with         *)
(* verification on or off, and hands both results to cb_compare_results.   *)
(***************************************************************************)
GateConfigs == {c \in ValidConfigs : ~c.monitor_environment}

InitGate ==
    /\ Fresh
    /\ runner = StaleRunner
    /\ limits = [ops |-> 2 * BenchCalls, faults |-> 0,
                 clock |-> 1 + 4 * (MaxWarmup + MaxMeasure)]
    /\ cmp = [pc |-> "waiting", a |-> ZeroResult, b |-> ZeroResult,
              comparison |-> StaleComparison, rc |-> CB_OK]
    /\ LibraryOff
    /\ \E config \in GateConfigs, output_size \in 0..MaxOutputSize :
        bench = [pc |-> "init", run |-> 1, config |-> config,
                 output_size |-> output_size, rc |-> CB_OK,
                 first |-> [rc |-> CB_OK, result |-> ZeroResult, outputs |-> <<>>]]

\* cb_compare_results(&first, &second, &comparison) after two runs that
\* both returned CB_OK
GateCompare ==
    /\ bench.pc = "returned"
    /\ bench.run = 2
    /\ bench.first.rc = CB_OK
    /\ bench.rc = CB_OK
    /\ cmp.pc = "waiting"
    /\ LET r == cb_compare_results(bench.first.result, result, cmp.comparison, FALSE)
       IN  cmp' = [pc |-> "done", a |-> bench.first.result, b |-> result,
                   comparison |-> r.comparison, rc |-> r.rc]
    /\ UNCHANGED <<runner, sample_buffer, output, g_timer, clock, call, ret, result,
                   obs, ops, limits, bench, hasher, statcall, envcall>>

NextGate ==
    \/ NextBench
    \/ GateCompare

SpecGate == InitGate /\ [][NextGate]_vars

\* C27: the comparison reports comparable = TRUE only when both results
\* carry an output_hash computed from hashed inference outputs: the results
\* of two runs with verification off, whose output_hash is the all-zero
\* default, are never reported comparable.
C27_UnverifiedNeverComparable ==
    (cmp.pc = "done" /\ cmp.rc = CB_OK /\ cmp.comparison.comparable)
        => /\ bench.config.verify_outputs
           /\ cmp.a.output_hash # ZeroHash
           /\ cmp.b.output_hash # ZeroHash

====
